---- MODULE Spec2Model ----
(***************************************************************************)
(* A model of the one-dimensional Gaussian mixture model of                *)
(* gaussian-mixture (GMM and Histogram of index.js).                       *)
(*                                                                         *)
(* Numbers.  The program computes with IEEE doubles.  The model computes   *)
(* with fixed-point numbers: the integer n stands for the number n/SCALE,  *)
(* every product and quotient is rounded to the nearest multiple of        *)
(* 1/SCALE, a magnitude above MaxMag overflows to an infinity and         *)
(* Math.exp underflows to 0 below half a unit, as a double does at the     *)
(* ends of its range.  NaN, Infinity and -Infinity are three values        *)
(* outside the numeric range, and the operators below give them the        *)
(* arithmetic JavaScript gives them.                                       *)
(***************************************************************************)
EXTENDS Integers, Sequences, FiniteSets, TLC

VARIABLES
  pc,             \* which operation has acted last, and how it ended
  nComponents,    \* this.nComponents
  weights,        \* this.weights
  means,          \* this.means
  vars,           \* this.vars
  options,        \* this.options
  data,           \* the data array handed to the operations
  h,              \* the Histogram handed to the operations
  args,           \* the arguments of the call under way
  loc,            \* the local variables of the call under way
  ret,            \* the value the last call returned
  obs             \* what a caller has observed so far (measurements between calls)

vars_all == <<pc, nComponents, weights, means, vars, options, data, h, args, loc, ret, obs>>

(***************************************************************************)
(* Fixed-point numbers with the special values of a double.                *)
(***************************************************************************)
SCALE == 1000

NaN == 0 - 2000000003
Infinity == 2000000001
NegInfinity == 0 - 2000000001

\* the largest magnitude the model represents: beyond it a result overflows
MaxMag == 1000 * SCALE

IsFinite(a) == a # NaN /\ a # Infinity /\ a # NegInfinity
AbsI(n) == IF n < 0 THEN 0 - n ELSE n
SignI(n) == IF n < 0 THEN 0 - 1 ELSE IF n > 0 THEN 1 ELSE 0
MaxI(a, b) == IF a >= b THEN a ELSE b

\* n / d (n >= 0, d > 0) rounded to the nearest integer; a nonzero quotient is
\* never rounded to 0: products and quotients of doubles in the program's
\* range do not underflow, only Math.exp does (Exp below)
RoundDiv(n, d) ==
  IF n = 0 THEN 0 ELSE MaxI(1, (2 * n + d) \div (2 * d))

\* a finite result, overflowing to an infinity
Fin(n) == IF n > MaxMag THEN Infinity ELSE IF n < 0 - MaxMag THEN NegInfinity ELSE n

Neg(a) ==
  IF a = NaN THEN NaN
  ELSE IF a = Infinity THEN NegInfinity
  ELSE IF a = NegInfinity THEN Infinity
  ELSE 0 - a

\* a + b
Add(a, b) ==
  IF a = NaN \/ b = NaN THEN NaN
  ELSE IF a = Infinity THEN (IF b = NegInfinity THEN NaN ELSE Infinity)
  ELSE IF a = NegInfinity THEN (IF b = Infinity THEN NaN ELSE NegInfinity)
  ELSE IF b = Infinity \/ b = NegInfinity THEN b
  ELSE Fin(a + b)

\* a - b
Sub(a, b) == Add(a, Neg(b))

\* the sign of a value that is not NaN
SignV(a) ==
  IF a = Infinity THEN 1 ELSE IF a = NegInfinity THEN 0 - 1 ELSE SignI(a)

\* a * b
Mul(a, b) ==
  IF a = NaN \/ b = NaN THEN NaN
  ELSE IF ~IsFinite(a) \/ ~IsFinite(b)
    THEN (IF SignV(a) * SignV(b) = 0 THEN NaN
          ELSE IF SignV(a) * SignV(b) > 0 THEN Infinity ELSE NegInfinity)
  ELSE IF a = 0 \/ b = 0 THEN 0
  ELSE IF AbsI(a) > (MaxMag * SCALE) \div AbsI(b)
    THEN (IF SignI(a) * SignI(b) > 0 THEN Infinity ELSE NegInfinity)
  ELSE Fin(SignI(a) * SignI(b) * RoundDiv(AbsI(a) * AbsI(b), SCALE))

\* a / b
Div(a, b) ==
  IF a = NaN \/ b = NaN THEN NaN
  ELSE IF ~IsFinite(a)
    THEN (IF ~IsFinite(b) THEN NaN
          ELSE IF SignV(a) * (IF b < 0 THEN 0 - 1 ELSE 1) > 0 THEN Infinity ELSE NegInfinity)
  ELSE IF ~IsFinite(b) THEN 0
  ELSE IF b = 0
    THEN (IF a = 0 THEN NaN ELSE IF a > 0 THEN Infinity ELSE NegInfinity)
  ELSE Fin(SignI(a) * SignI(b) * RoundDiv(AbsI(a) * SCALE, AbsI(b)))

\* a > b, a < b, a <= b (false as soon as one side is NaN)
Gt(a, b) == a # NaN /\ b # NaN /\ a > b
Lt(a, b) == a # NaN /\ b # NaN /\ a < b
Le(a, b) == a # NaN /\ b # NaN /\ a <= b

\* ln 2 and 2 * pi as fixed-point values
LN2 == (693147 * SCALE) \div 1000000
RECURSIVE SqrtIter(_, _, _)
\* the largest r in lo..hi with r * r <= n (lo * lo <= n)
SqrtIter(n, lo, hi) ==
  IF lo >= hi THEN lo
  ELSE LET mid == (lo + hi + 1) \div 2
       IN IF mid * mid <= n THEN SqrtIter(n, mid, hi) ELSE SqrtIter(n, lo, mid - 1)

\* Math.sqrt
Sqrt(a) ==
  IF a = NaN \/ a = NegInfinity THEN NaN
  ELSE IF a = Infinity THEN Infinity
  ELSE IF a < 0 THEN NaN
  ELSE IF a = 0 THEN 0
  ELSE LET r == SqrtIter(a * SCALE, 0, 46340)
       IN MaxI(1, IF a * SCALE - r * r > r THEN r + 1 ELSE r)

RECURSIVE Pow2(_)
Pow2(q) == IF q = 0 THEN 1 ELSE 2 * Pow2(q - 1)

\* Math.exp(a) for a <= 0 (the only arguments the program gives it, NaN apart):
\* e^a rounded to the nearest multiple of 1/SCALE, so it underflows to 0
Exp(a) ==
  LET
      \* e^(-r) for 0 <= r < ln 2, by its Taylor polynomial of degree 6
      ExpFrac(r) ==
        LET P(x, y) == (x * y + SCALE \div 2) \div SCALE
            t6 == SCALE - r \div 6
            t5 == SCALE - P(r, t6) \div 5
            t4 == SCALE - P(r, t5) \div 4
            t3 == SCALE - P(r, t4) \div 3
            t2 == SCALE - P(r, t3) \div 2
        IN SCALE - P(r, t2)
  IN
  IF a = NaN \/ a = Infinity THEN a
  ELSE IF a = NegInfinity THEN 0
  ELSE IF a > 0 THEN Infinity
  ELSE LET t == 0 - a
           q == t \div LN2
       IN IF q > 20 THEN 0
          ELSE (2 * ExpFrac(t % LN2) + Pow2(q)) \div (2 * Pow2(q))

RECURSIVE LogNorm(_, _)
\* ln(m) for a fixed-point m > 0: e * ln 2 + ln(m / 2^e) with m / 2^e in [1, 2)
LogNorm(m, e) ==
  IF m < SCALE THEN LogNorm(2 * m, e - 1)
  ELSE IF m >= 2 * SCALE THEN LogNorm(m \div 2, e + 1)
  ELSE LET P(x, y) == (x * y + SCALE \div 2) \div SCALE
           z == ((m - SCALE) * SCALE + (m + SCALE) \div 2) \div (m + SCALE)
           z2 == P(z, z)
           s == SCALE + P(z2, SCALE \div 3 + P(z2, SCALE \div 5 + P(z2, SCALE \div 7)))
       IN e * LN2 + 2 * P(z, s)

\* Math.log
Log(a) ==
  IF a = NaN \/ a = NegInfinity THEN NaN
  ELSE IF a = Infinity THEN Infinity
  ELSE IF a < 0 THEN NaN
  ELSE IF a = 0 THEN NegInfinity
  ELSE LogNorm(a, 0)

\* the number n as a fixed-point value
Num(n) == n * SCALE

\* a value is truthy unless it is 0 or NaN (undefined is handled by the caller)
Truthy(a) == a # 0 /\ a # NaN

(***************************************************************************)
(* Arrays are sequences: index k of the program is index k + 1 here.       *)
(***************************************************************************)
\* F(e), with e evaluated once
RECURSIVE SumTo(_, _, _)
\* acc + f[1] + ... + f[n], added in the order of the program's loops
SumTo(f, n, acc) == IF n = 0 THEN acc ELSE Add(SumTo(f, n - 1, acc), f[n])

\* range(n)
range(n) == [i \in 1..n |-> Num(i - 1)]

(***************************************************************************)
(* The normal distribution of the gaussian package: gaussian(mean,         *)
(* variance) refuses a variance <= 0, and pdf(x) is                        *)
(* exp(-(x - mean)^2 / (2 variance)) / (sqrt(variance) sqrt(2 pi)).        *)
(***************************************************************************)
pdf(mean, variance, x) ==
  LET
      \* Math.sqrt(2 * Math.PI)
      SqrtTwoPi ==
        LET
            TWOPI == (628319 * SCALE) \div 100000
        IN
        Sqrt(TWOPI)
  IN
  LET m == Mul(Sqrt(variance), SqrtTwoPi)
      d == Sub(x, mean)
      e == Exp(Div(Neg(Mul(d, d)), Mul(Num(2), variance)))
  IN Div(e, m)

\* GMM.prototype._gaussians throws when one of the variances is refused
GaussiansThrow(g) ==
  LET
      GaussianThrows(variance) == Le(variance, 0)
  IN
  \E k \in 1..g.nComponents : GaussianThrows(g.vars[k])

\* the densities of the components at x, and their sum as the loop adds it
Densities(g, x) == [k \in 1..g.nComponents |-> pdf(g.means[k], g.vars[k], x)]
DensitySum(g, x) == SumTo(Densities(g, x), g.nComponents, 0)

\* a mutation: the densities are weighted by the mixture weights before they
\* are normalised
membershipWeighted(g, x) ==
  LET m == [k \in 1..g.nComponents |-> Mul(g.weights[k], Densities(g, x)[k])]
      sum == SumTo(m, g.nComponents, 0)
  IN [k \in 1..g.nComponents |-> Div(m[k], sum)]

\* GMM.prototype.membership
membership(g, x) ==
  LET m == Densities(g, x)
      sum == SumTo(m, g.nComponents, 0)
  IN [k \in 1..g.nComponents |-> Div(m[k], sum)]

\* GMM.prototype.memberships
memberships(g, d) == [i \in 1..Len(d) |-> membership(g, d[i])]

\* a mutation: the weighted sum is not divided by the sum of the weights
barycenterUnnormalised(array, w) ==
  SumTo([i \in 1..Len(array) |-> Mul(array[i], w[i])], Len(array), 0)

\* GMM._barycenter
barycenter(array, w) ==
  LET n == Len(array)
      total == SumTo(w, n, 0)
      b == SumTo([i \in 1..n |-> Mul(array[i], w[i])], n, 0)
  IN Div(b, total)

(***************************************************************************)
(* Histogram.  counts is a function from the keys to their counts, keys    *)
(* the keys in the order Object.keys gives them, bins the sequence of the  *)
(* bins <<key, lo, hi>> in the order of Object.keys(bins), hasBins whether *)
(* this.bins is set.                                                       *)
(***************************************************************************)
KeyStr == <<"0", "1", "2", "3", "4", "5", "6", "7", "8", "9">>

\* the key is the decimal spelling of an array index (here 0..9)
IsIndexKey(key) == \E n \in 1..Len(KeyStr) : KeyStr[n] = key

\* Number(key): the number a key spells, NaN when it spells none
Number(key) ==
  IF IsIndexKey(key)
  THEN Num((CHOOSE n \in 1..Len(KeyStr) : KeyStr[n] = key) - 1)
  ELSE NaN

\* Math.round(x).toString() for 0 <= Math.round(x) <= 9
RoundToString(x) == KeyStr[((x + SCALE \div 2) \div SCALE) + 1]

\* the value null
NullKey == "<null>"

\* this.bins[key] is defined
HasBin(hh, key) == \E i \in 1..Len(hh.bins) : hh.bins[i][1] = key
BinOf(hh, key) == hh.bins[CHOOSE i \in 1..Len(hh.bins) : hh.bins[i][1] = key]

\* Histogram.prototype.value throws when bins are defined and the key has none
ValueThrows(hh, key) == hh.hasBins /\ ~HasBin(hh, key)

\* Histogram.prototype.value
value(hh, key) ==
  IF hh.hasBins
  THEN Div(Add(BinOf(hh, key)[2], BinOf(hh, key)[3]), Num(2))
  ELSE Number(key)

\* a mutation: the upper bound of a bin belongs to the bin
_classifyClosed(x, hh) ==
  IF ~hh.hasBins THEN RoundToString(x)
  ELSE IF \E i \in 1..Len(hh.bins) : Le(hh.bins[i][2], x) /\ Le(x, hh.bins[i][3])
  THEN hh.bins[CHOOSE j \in 1..Len(hh.bins) :
                 /\ Le(hh.bins[j][2], x) /\ Le(x, hh.bins[j][3])
                 /\ \A l \in 1..(j - 1) : ~(Le(hh.bins[l][2], x) /\ Le(x, hh.bins[l][3]))][1]
  ELSE NullKey

\* Histogram._classify
_classify(x, hh) ==
  IF ~hh.hasBins THEN RoundToString(x)
  ELSE IF \E i \in 1..Len(hh.bins) : Le(hh.bins[i][2], x) /\ Lt(x, hh.bins[i][3])
  THEN LET i == CHOOSE j \in 1..Len(hh.bins) :
                  /\ Le(hh.bins[j][2], x) /\ Lt(x, hh.bins[j][3])
                  /\ \A l \in 1..(j - 1) : ~(Le(hh.bins[l][2], x) /\ Lt(x, hh.bins[l][3]))
       IN hh.bins[i][1]
  ELSE NullKey

RECURSIVE InsertKey(_, _)
\* the keys of counts after counts[c] is first set: an index key goes before
\* the larger index keys and every other key, another key goes last
InsertKey(keys, c) ==
  IF keys = <<>> THEN <<c>>
  ELSE IF IsIndexKey(c) /\ (~IsIndexKey(Head(keys)) \/ Number(Head(keys)) > Number(c))
  THEN <<c>> \o keys
  ELSE <<Head(keys)>> \o InsertKey(Tail(keys), c)

\* a mutation: an observation in no bin is still counted in the total
addCountsDropped(hh, x) ==
  LET c == _classify(x, hh)
      has == \E i \in 1..Len(hh.keys) : hh.keys[i] = c
  IN IF c = NullKey THEN [hh EXCEPT !.total = hh.total + 1]
     ELSE IF ~has
     THEN [hh EXCEPT !.keys = InsertKey(hh.keys, c),
                     !.counts = [k \in (DOMAIN hh.counts) \cup {c} |->
                                   IF k = c THEN 1 ELSE hh.counts[k]],
                     !.total = hh.total + 1]
     ELSE [hh EXCEPT !.counts[c] = IF hh.counts[c] = 0 THEN 1 ELSE hh.counts[c] + 1,
                     !.total = hh.total + 1]

\* Histogram.prototype.add
add(hh, x) ==
  LET c == _classify(x, hh)
      has == \E i \in 1..Len(hh.keys) : hh.keys[i] = c
  IN IF c = NullKey THEN hh
     ELSE IF ~has
     THEN [hh EXCEPT !.keys = InsertKey(hh.keys, c),
                     !.counts = [k \in (DOMAIN hh.counts) \cup {c} |->
                                   IF k = c THEN 1 ELSE hh.counts[k]],
                     !.total = hh.total + 1]
     ELSE [hh EXCEPT !.counts[c] = IF hh.counts[c] = 0 THEN 1 ELSE hh.counts[c] + 1,
                     !.total = hh.total + 1]

RECURSIVE AddAll(_, _, _)
AddAll(hh, d, n) == IF n = 0 THEN hh ELSE add(AddAll(hh, d, n - 1), d[n])

\* Histogram.fromData(data) and Histogram.fromData(data, bins)
fromData(d, hasBins, bins) ==
  AddAll([hasBins |-> hasBins, bins |-> bins, keys |-> <<>>, counts |-> <<>>, total |-> 0],
         d, Len(d))

RECURSIVE SumCounts(_, _)
SumCounts(hh, n) == IF n = 0 THEN 0 ELSE SumCounts(hh, n - 1) + hh.counts[hh.keys[n]]

\* Histogram._total
_total(hh) == SumCounts(hh, Len(hh.keys))

RECURSIVE Repeat(_, _)
Repeat(v, n) == IF n <= 0 THEN <<>> ELSE Append(Repeat(v, n - 1), v)

RECURSIVE FlattenTo(_, _)
\* Histogram.prototype.flatten, over the first n keys
FlattenTo(hh, n) ==
  IF n = 0 THEN <<>>
  ELSE FlattenTo(hh, n - 1) \o Repeat(value(hh, hh.keys[n]), hh.counts[hh.keys[n]])

\* a mutation: each key gives one observation, whatever its count
flattenKeys(hh) == [i \in 1..Len(hh.keys) |-> value(hh, hh.keys[i])]

\* Histogram.prototype.flatten
flatten(hh) == FlattenTo(hh, Len(hh.keys))

\* GMM.prototype._membershipsHistogram
_membershipsHistogram(g, hh) ==
  [key \in {hh.keys[i] : i \in 1..Len(hh.keys)} |-> membership(g, value(hh, key))]

(***************************************************************************)
(* One expectation-maximization step.                                      *)
(***************************************************************************)
\* a mutation: the accumulator of the variance starts from 0
EPSILONZero == 1 - 1

\* the program's EPSILON, 1e-7: the smallest positive number of the model
EPSILON == 1

HasSeparationPrior(g) ==
  Truthy(g.options.separationPrior) /\ Truthy(g.options.separationPriorRelevance)
HasVariancePrior(g) ==
  Truthy(g.options.variancePrior) /\ Truthy(g.options.variancePriorRelevance)

\* a mutation: the blend made with the weights of before the step
SeparationBlendOldWeights(g, w, mu) ==
  LET K == g.nComponents
      separationPrior == g.options.separationPrior
      priorMeans == [k \in 1..K |-> Mul(Num(k - 1), separationPrior)]
      priorCenter == barycenter(priorMeans, g.weights)
      center == barycenter(mu, g.weights)
      alpha(k) == Div(g.weights[k], Add(g.weights[k], g.options.separationPriorRelevance))
  IN [k \in 1..K |->
        Add(Add(center, Mul(alpha(k), Sub(mu[k], center))),
            Mul(Sub(Num(1), alpha(k)), Sub(priorMeans[k], priorCenter)))]

\* the blend of the means with the separation prior
SeparationBlend(g, w, mu) ==
  LET K == g.nComponents
      separationPrior == g.options.separationPrior
      priorMeans == [k \in 1..K |-> Mul(Num(k - 1), separationPrior)]
      priorCenter == barycenter(priorMeans, w)
      center == barycenter(mu, w)
      alpha(k) == Div(w[k], Add(w[k], g.options.separationPriorRelevance))
  IN [k \in 1..K |->
        Add(Add(center, Mul(alpha(k), Sub(mu[k], center))),
            Mul(Sub(Num(1), alpha(k)), Sub(priorMeans[k], priorCenter)))]

\* the blend of a variance with the variance prior
VarianceBlend(g, w, k, v) ==
  LET alpha == Div(w[k], Add(w[k], g.options.variancePriorRelevance))
  IN Add(Mul(alpha, v), Mul(Sub(Num(1), alpha), g.options.variancePrior))

\* GMM.prototype._updateModel, with the memberships given or computed
_updateModel(g, d, mem) ==
  LET K == g.nComponents
      n == Len(d)
      componentWeights ==
        [k \in 1..K |-> SumTo([i \in 1..Len(mem) |-> mem[i][k]], Len(mem), 0)]
      w == [k \in 1..K |-> Div(componentWeights[k], Num(n))]
      rawMeans ==
        [k \in 1..K |->
           Div(SumTo([i \in 1..n |-> Mul(mem[i][k], d[i])], n, 0), componentWeights[k])]
      mu == IF HasSeparationPrior(g) THEN SeparationBlend(g, w, rawMeans) ELSE rawMeans
      rawVar(k) ==
        Div(SumTo([i \in 1..n |-> Mul(Mul(mem[i][k], Sub(d[i], mu[k])), Sub(d[i], mu[k]))],
                  n, EPSILON),
            componentWeights[k])
      v == [k \in 1..K |->
              IF HasVariancePrior(g) THEN VarianceBlend(g, w, k, rawVar(k)) ELSE rawVar(k)]
  IN [g EXCEPT !.weights = w, !.means = mu, !.vars = v]

\* GMM.prototype._updateModelHistogram, with the memberships given or computed
_updateModelHistogram(g, hh, mem) ==
  LET K == g.nComponents
      n == hh.total
      keys == hh.keys
      c(i) == Num(hh.counts[keys[i]])
      val(i) == value(hh, keys[i])
      componentWeights ==
        [k \in 1..K |->
           SumTo([i \in 1..Len(keys) |-> Mul(mem[keys[i]][k], c(i))], Len(keys), 0)]
      w == [k \in 1..K |-> Div(componentWeights[k], Num(n))]
      rawMeans ==
        [k \in 1..K |->
           Div(SumTo([i \in 1..Len(keys) |-> Mul(Mul(mem[keys[i]][k], val(i)), c(i))],
                     Len(keys), 0),
               componentWeights[k])]
      mu == IF HasSeparationPrior(g) THEN SeparationBlend(g, w, rawMeans) ELSE rawMeans
      rawVar(k) ==
        Div(SumTo([i \in 1..Len(keys) |->
                     Mul(Mul(Mul(mem[keys[i]][k], Sub(val(i), mu[k])), Sub(val(i), mu[k])),
                         c(i))],
                  Len(keys), EPSILON),
            componentWeights[k])
      v == [k \in 1..K |->
              IF HasVariancePrior(g) THEN VarianceBlend(g, w, k, rawVar(k)) ELSE rawVar(k)]
  IN [g EXCEPT !.weights = w, !.means = mu, !.vars = v]

(***************************************************************************)
(* The log-likelihood, computed three ways.                                *)
(***************************************************************************)
\* the mixture density the loops of _logLikelihood accumulate in p
MixtureDensity(g, x) ==
  SumTo([k \in 1..g.nComponents |-> Mul(g.weights[k], pdf(g.means[k], g.vars[k], x))],
        g.nComponents, 0)

\* GMM.prototype._logLikelihood: the loop returns -Infinity at the first
\* observation whose density p is 0, and adds Math.log(p) otherwise
_logLikelihood(g, d) ==
  LET p == [i \in 1..Len(d) |-> MixtureDensity(g, d[i])]
  IN IF \E i \in 1..Len(d) : p[i] = 0 THEN NegInfinity
     ELSE SumTo([i \in 1..Len(d) |-> Log(p[i])], Len(d), 0)

\* GMM.prototype._logLikelihoodHistogram: the same loop over the keys, each
\* logarithm multiplied by the count of its key
_logLikelihoodHistogram(g, hh) ==
  LET n == Len(hh.keys)
      p == [i \in 1..n |-> MixtureDensity(g, value(hh, hh.keys[i]))]
  IN IF \E i \in 1..n : p[i] = 0 THEN NegInfinity
     ELSE SumTo([i \in 1..n |-> Mul(Log(p[i]), Num(hh.counts[hh.keys[i]]))], n, 0)

\* GMM.prototype._logLikelihoodMemberships
_logLikelihoodMemberships(g, mem) ==
  LET
      \* the weighted sum of a row of memberships that _logLikelihoodMemberships
      \* accumulates in p
      MembershipDensity(row) ==
        SumTo([k \in 1..g.nComponents |-> Mul(g.weights[k], row[k])], g.nComponents, 0)
  IN
  LET p == [i \in 1..Len(mem) |-> MembershipDensity(mem[i])]
  IN IF \E i \in 1..Len(mem) : p[i] = 0 THEN NegInfinity
     ELSE SumTo([i \in 1..Len(mem) |-> Log(p[i])], Len(mem), 0)

(***************************************************************************)
(* The state of the model: one GMM object (this), the data and the         *)
(* histogram the caller holds, and the call under way.                     *)
(***************************************************************************)
This ==
  [nComponents |-> nComponents, weights |-> weights, means |-> means,
   vars |-> vars, options |-> options]

\* the model as model() returns it
model == [weights |-> weights, means |-> means, vars |-> vars]

\* options === undefined ? {} : options, an absent field read as 0 (falsy)
NoOptions ==
  [variancePrior |-> 0, variancePriorRelevance |-> 0, separationPrior |-> 0,
   separationPriorRelevance |-> 0, initialize |-> FALSE]

\* new Histogram({counts: {}})
EmptyHistogram ==
  [hasBins |-> FALSE, bins |-> <<>>, keys |-> <<>>, counts |-> <<>>, total |-> 0]

\* new Histogram({counts: c}), the keys of c in Object.keys order
NewHistogram(keys, counts) ==
  LET hh == [hasBins |-> FALSE, bins |-> <<>>, keys |-> keys, counts |-> counts, total |-> 0]
  IN [hh EXCEPT !.total = _total(hh)]

Nothing == [none |-> TRUE]

\* a returned value
Returned(v) == [none |-> FALSE, value |-> v]

\* an argument that is undefined, and one that is the array a
Undefined == [given |-> FALSE, a |-> <<>>]
Given(a) == [given |-> TRUE, a |-> a]

(***************************************************************************)
(* new GMM(nComponents, weights, means, vars, options)                     *)
(***************************************************************************)
\* the three arrays after the defaults of the constructor
DefaultWeights(n, w) == IF w.given THEN w.a ELSE [i \in 1..n |-> Div(Num(1), Num(n))]
DefaultMeans(n, m) == IF m.given THEN m.a ELSE range(n)
DefaultVars(n, v) == IF v.given THEN v.a ELSE [i \in 1..n |-> Num(1)]

\* a mutation: the length of vars is not looked at
ConstructorThrowsNoVars(n, w, m, v) == n # Len(w) \/ n # Len(m)

\* the condition under which the constructor throws
ConstructorThrows(n, w, m, v) == n # Len(w) \/ n # Len(m) \/ n # Len(v)

\* the bounds of the constructor's inputs
NewMaxComponents == 3
NewMaxLen == 3

\* the arrays a caller may pass: undefined, or an array of 0..NewMaxLen numbers
\* (all equal to c, and to c2 from the second on: the values are arbitrary)
NewArrays(c, c2) ==
  {Undefined} \cup {Given([i \in 1..n |-> IF i = 1 THEN c ELSE c2]) : n \in 0..NewMaxLen}

GMMNew(n, w, m, v) ==
  /\ pc = "start"
  /\ args' = [nComponents |-> n, weights |-> w, means |-> m, vars |-> v]
  /\ IF ConstructorThrows(n, DefaultWeights(n, w), DefaultMeans(n, m), DefaultVars(n, v))
     THEN /\ pc' = "threw"
          /\ UNCHANGED <<nComponents, weights, means, vars, options>>
     ELSE /\ pc' = "constructed"
          /\ nComponents' = n
          /\ weights' = DefaultWeights(n, w)
          /\ means' = DefaultMeans(n, m)
          /\ vars' = DefaultVars(n, v)
          /\ options' = NoOptions
  /\ UNCHANGED <<data, h, loc, ret, obs>>

InitNew ==
  /\ pc = "start"
  /\ nComponents = 0 /\ weights = <<>> /\ means = <<>> /\ vars = <<>>
  /\ options = NoOptions
  /\ data = <<>> /\ h = EmptyHistogram
  /\ args = Nothing /\ loc = Nothing /\ ret = Nothing /\ obs = Nothing

NextNew ==
  \E n \in 0..NewMaxComponents :
    \E w \in NewArrays(Num(1), 300), m \in NewArrays(Num(2), 0),
       v \in NewArrays(Num(1), Num(1)) :
      GMMNew(n, w, m, v)

SpecNew == InitNew /\ [][NextNew]_vars_all

\* C1: the constructor throws whenever one of weights, means and vars, after the
\* defaults, has a length other than nComponents, and it yields a GMM only when
\* the three lengths are nComponents; the values in the arrays are not looked at.
C1_ConstructorChecksLengths ==
  LET n == args.nComponents
      len(x) == IF x.given THEN Len(x.a) ELSE n
      allEqual == len(args.weights) = n /\ len(args.means) = n /\ len(args.vars) = n
  IN /\ pc = "threw" => ~allEqual
     /\ pc = "constructed" =>
          /\ allEqual
          /\ nComponents = n
          /\ Len(weights) = n /\ Len(means) = n /\ Len(vars) = n
          /\ args.weights.given => weights = args.weights.a

\* the constructor has thrown for the length of vars alone
C1_Witness ==
  /\ pc = "threw"
  /\ args.nComponents = 2
  /\ args.weights.given /\ Len(args.weights.a) = 2
  /\ ~args.means.given
  /\ args.vars.given /\ Len(args.vars.a) = 3

(***************************************************************************)
(* membership(x) on a constructed GMM.                                     *)
(***************************************************************************)
\* the bounds of the models and observations membership is applied to
MemMaxComponents == 2
MemMaxX == 7

InitMembership ==
  LET
      \* the models: every choice of means, variances (0 is refused by the gaussian
      \* package) and weights (uniform or not) for 1..MemMaxComponents components
      MemMeans == {0, Num(2), Num(4)}
      MemVars == {0, SCALE \div 2, Num(1), Num(2)}
      MemWeights == {SCALE \div 2, SCALE \div 5}
  IN
  /\ pc = "constructed"
  /\ nComponents \in 1..MemMaxComponents
  /\ means \in [1..nComponents -> MemMeans]
  /\ vars \in [1..nComponents -> MemVars]
  /\ weights \in [1..nComponents -> MemWeights]
  /\ options = NoOptions
  /\ data = <<>> /\ h = EmptyHistogram
  /\ args = Nothing /\ loc = Nothing /\ ret = Nothing /\ obs = Nothing

\* gmm.membership(x)
Membership(x) ==
  /\ pc = "constructed"
  /\ args' = [x |-> x]
  /\ IF GaussiansThrow(This)
     THEN pc' = "threw" /\ ret' = ret
     ELSE pc' = "membership" /\ ret' = membership(This, x)
  /\ UNCHANGED <<nComponents, weights, means, vars, options, data, h, loc, obs>>

NextMembership == \E x \in 0..MemMaxX : Membership(Num(x))

SpecMembership == InitMembership /\ [][NextMembership]_vars_all

\* C2: when the densities of the components at x have a nonzero finite sum,
\* membership(x) has nComponents entries, none negative, that sum to 1 (within
\* one unit of rounding per entry), and entry k is the density of component k
\* at x divided by that sum: the mixture weights play no part.
C2_MembershipNormalised ==
  (pc = "membership" /\ IsFinite(DensitySum(This, args.x)) /\ DensitySum(This, args.x) # 0)
  => LET sum == DensitySum(This, args.x)
         m == Densities(This, args.x)
     IN /\ DOMAIN ret = 1..nComponents
        /\ \A k \in 1..nComponents : IsFinite(ret[k]) /\ ret[k] >= 0
        /\ AbsI(SumTo(ret, nComponents, 0) - Num(1)) <= nComponents
        /\ \A k \in 1..nComponents : AbsI(ret[k] * sum - m[k] * SCALE) <= sum

\* membership has been computed for a model of two components with unequal
\* weights and unequal densities at x
C2_Witness ==
  /\ pc = "membership"
  /\ nComponents = 2
  /\ weights[1] # weights[2]
  /\ IsFinite(DensitySum(This, args.x)) /\ DensitySum(This, args.x) # 0
  /\ ret[1] > ret[2] /\ ret[2] > 0

(***************************************************************************)
(* Update steps on a constructed GMM: _updateModel(data) and               *)
(* _updateModelHistogram(h), each followed by the caller's measurement of  *)
(* the log-likelihood, as the test of the log-likelihood does.             *)
(***************************************************************************)
RECURSIVE SortedSeqs(_, _, _)
\* the non-decreasing sequences of n whole numbers in lo..hi, as numbers
SortedSeqs(n, lo, hi) ==
  IF n = 0 THEN {<<>>}
  ELSE UNION {{<<Num(x)>> \o t : t \in SortedSeqs(n - 1, x, hi)} : x \in lo..hi}

\* the observations x at which the densities of g have no nonzero finite sum
Degenerate(g, xs) ==
  \E i \in 1..Len(xs) : ~IsFinite(DensitySum(g, xs[i])) \/ DensitySum(g, xs[i]) = 0

\* gmm._updateModel(data), then gmm.logLikelihood(data)
UpdateModel(maxSteps) ==
  /\ pc \in {"constructed", "updated"}
  /\ obs.steps < maxSteps
  /\ IF GaussiansThrow(This)
     THEN /\ pc' = "threw"
          /\ UNCHANGED <<weights, means, vars, obs>>
     ELSE \E g \in {_updateModel(This, data, memberships(This, data))} :
             /\ pc' = "updated"
             /\ weights' = g.weights /\ means' = g.means /\ vars' = g.vars
             /\ obs' = [steps |-> obs.steps + 1, variant |-> "array", start |-> model,
                        degenerate |-> Degenerate(This, data),
                        before |-> obs.after,
                        after |-> IF GaussiansThrow(g) THEN NaN ELSE _logLikelihood(g, data)]
  /\ UNCHANGED <<nComponents, options, data, h, args, loc, ret>>

\* gmm._updateModelHistogram(h), then gmm.logLikelihood(h)
UpdateModelHistogram(maxSteps) ==
  LET
      \* the representative values of the keys of a histogram
      Values(hh) == [i \in 1..Len(hh.keys) |-> value(hh, hh.keys[i])]
  IN
  /\ pc \in {"constructed", "updated"}
  /\ obs.steps < maxSteps
  /\ IF GaussiansThrow(This) \/ \E i \in 1..Len(h.keys) : ValueThrows(h, h.keys[i])
     THEN /\ pc' = "threw"
          /\ UNCHANGED <<weights, means, vars, obs>>
     ELSE \E g \in {_updateModelHistogram(This, h, _membershipsHistogram(This, h))} :
             /\ pc' = "updated"
             /\ weights' = g.weights /\ means' = g.means /\ vars' = g.vars
             /\ obs' = [steps |-> obs.steps + 1, variant |-> "histogram", start |-> model,
                        degenerate |-> Degenerate(This, Values(h)),
                        before |-> obs.after,
                        after |-> IF GaussiansThrow(g) THEN NaN
                                  ELSE _logLikelihoodHistogram(g, h)]
  /\ UNCHANGED <<nComponents, options, data, h, args, loc, ret>>

\* the bounds of the update steps: components, observations, their values, steps
UpdMaxComponents == 2
UpdMaxLen == 3
UpdMaxVal == 5
UpdMaxSteps == 2

InitUpdate ==
  LET
      \* the option records of the update steps: none, a variance prior, a
      \* separation prior
      UpdOptions ==
        {NoOptions,
         [NoOptions EXCEPT !.variancePrior = Num(3), !.variancePriorRelevance = SCALE \div 2],
         [NoOptions EXCEPT !.separationPrior = Num(3), !.separationPriorRelevance = Num(1)]}
      \* weights before the first step: 1 / nComponents each, or weights that do not
      \* sum to 1
      UpdWeights(n) == {[k \in 1..n |-> RoundDiv(SCALE, n)], [k \in 1..n |-> SCALE \div 5]}
      UpdData == UNION {SortedSeqs(n, 0, UpdMaxVal) : n \in 1..UpdMaxLen}
  IN
  /\ pc = "constructed"
  /\ nComponents \in 1..UpdMaxComponents
  /\ means \in [1..nComponents -> {Num(1), Num(4)}]
  /\ vars = DefaultVars(nComponents, Undefined)
  /\ weights \in UpdWeights(nComponents)
  /\ options \in UpdOptions
  /\ data \in UpdData
  /\ h = fromData(data, FALSE, <<>>)
  /\ args = Nothing /\ loc = Nothing /\ ret = Nothing
  /\ obs = [steps |-> 0, variant |-> "none", start |-> model, degenerate |-> FALSE,
            before |-> NaN, after |-> NaN]

NextUpdate ==
  \/ UpdateModel(UpdMaxSteps)
  \/ UpdateModelHistogram(UpdMaxSteps)

SpecUpdate == InitUpdate /\ [][NextUpdate]_vars_all

\* C3: after any update step on non-empty data, with the responsibilities
\* computed by the step, the weights have nComponents entries, none negative,
\* that sum to 1 (within the rounding of the nComponents quotients and of the
\* memberships they sum), whatever they were before.
C3_WeightsSumToOne ==
  pc = "updated" =>
    /\ DOMAIN weights = 1..nComponents
    /\ \A k \in 1..nComponents : IsFinite(weights[k]) /\ weights[k] >= 0
    /\ AbsI(SumTo(weights, nComponents, 0) - Num(1)) <= 2 * nComponents

\* ---------------------------------------------------------------------------
\* SpecAscent: successive _updateModel(data) calls on a two-component model
\* without priors, the log-likelihood measured after each

\* the bounds of the ascent: observations, their values, steps
AscMaxLen == 5
AscMaxVal == 5
AscMaxSteps == 2

InitAscent ==
  LET
      \* the starting means of the two components
      AscMeans == {Num(0), Num(2), Num(4), Num(6)}
  IN
  /\ pc = "constructed"
  /\ nComponents = 2
  /\ means \in {m \in [1..2 -> AscMeans] : m[1] < m[2]}
  /\ vars = DefaultVars(2, Undefined)
  /\ weights = DefaultWeights(2, Undefined)
  /\ options = NoOptions
  /\ data \in SortedSeqs(AscMaxLen, 0, AscMaxVal)
  /\ h = EmptyHistogram
  /\ args = Nothing /\ loc = Nothing /\ ret = Nothing
  /\ obs = [steps |-> 0, variant |-> "none", start |-> model, degenerate |-> FALSE,
            before |-> NaN, after |-> NaN]

NextAscent == UpdateModel(AscMaxSteps)

SpecAscent == InitAscent /\ [][NextAscent]_vars_all

\* C4: the log-likelihood measured after an update step is never lower (up to
\* the tolerance) than the one measured after the step before it.
C4_LogLikelihoodNonDecreasing ==
  LET
      \* what the rounding of the model's sums, quotients and logarithms may add to
      \* the tolerance of 1e-5: 0.05
      AscentTolerance == SCALE \div 20
  IN
  (pc = "updated" /\ obs.steps >= 2 /\ IsFinite(obs.before) /\ IsFinite(obs.after))
    => obs.after >= obs.before - AscentTolerance

\* a and b agree within t, or are the same non-number
Close(a, b, t) == a = b \/ (IsFinite(a) /\ IsFinite(b) /\ AbsI(a - b) <= t)

\* ---------------------------------------------------------------------------
\* SpecLogLikelihood: the log-likelihood of one model measured on a histogram,
\* on the array the histogram flattens to, and from the memberships of that
\* array

Measured(v) == [done |-> TRUE, value |-> v]

\* gmm.logLikelihood(h)
LogLikelihoodHistogram ==
  /\ pc \in {"constructed", "measured"}
  /\ ~obs.histogram.done
  /\ IF GaussiansThrow(This) \/ \E i \in 1..Len(h.keys) : ValueThrows(h, h.keys[i])
     THEN pc' = "threw" /\ UNCHANGED <<ret, obs>>
     ELSE \E l \in {_logLikelihoodHistogram(This, h)} :
            /\ pc' = "measured"
            /\ ret' = Returned(l)
            /\ obs' = [obs EXCEPT !.histogram = Measured(l)]
  /\ UNCHANGED <<nComponents, weights, means, vars, options, data, h, args, loc>>

\* data = h.flatten(); gmm.logLikelihood(data)
LogLikelihoodFlattened ==
  /\ pc \in {"constructed", "measured"}
  /\ ~obs.array.done
  /\ IF GaussiansThrow(This) \/ \E i \in 1..Len(h.keys) : ValueThrows(h, h.keys[i])
     THEN pc' = "threw" /\ UNCHANGED <<ret, obs, data>>
     ELSE \E d \in {flatten(h)} : \E l \in {_logLikelihood(This, d)} :
            /\ pc' = "measured"
            /\ data' = d
            /\ ret' = Returned(l)
            /\ obs' = [obs EXCEPT !.array = Measured(l)]
  /\ UNCHANGED <<nComponents, weights, means, vars, options, h, args, loc>>

\* gmm._logLikelihoodMemberships(gmm.memberships(data)), data being flattened
LogLikelihoodMemberships ==
  /\ pc = "measured"
  /\ obs.array.done /\ ~obs.memberships.done
  /\ IF GaussiansThrow(This)
     THEN pc' = "threw" /\ UNCHANGED <<ret, obs>>
     ELSE \E l \in {_logLikelihoodMemberships(This, memberships(This, data))} :
            /\ pc' = "measured"
            /\ ret' = Returned(l)
            /\ obs' = [obs EXCEPT !.memberships = Measured(l)]
  /\ UNCHANGED <<nComponents, weights, means, vars, options, data, h, args, loc>>

\* the bounds of the measurements: components, the values of the keys, counts
LlkMaxComponents == 2
LlkMaxVal == 4
LlkMaxCount == 2

RECURSIVE KeySeqs(_)
\* the ascending sequences of keys among "0" .. the key of n - 1
KeySeqs(n) ==
  IF n = 0 THEN {<<>>}
  ELSE KeySeqs(n - 1) \cup {Append(ks, KeyStr[n]) : ks \in KeySeqs(n - 1)}

InitLogLikelihood ==
  LET
      \* the histograms new Histogram({counts: c}), counts of 0 included
      LlkHistograms ==
        UNION {{NewHistogram(ks, c) : c \in [{ks[i] : i \in 1..Len(ks)} -> 0..LlkMaxCount]} :
                 ks \in KeySeqs(LlkMaxVal + 1)}
      \* the outcome of a measurement not made yet, and of one that returned v
      NotMeasured == [done |-> FALSE, value |-> NaN]
  IN
  /\ pc = "constructed"
  /\ nComponents \in 1..LlkMaxComponents
  /\ weights = DefaultWeights(nComponents, Undefined)
  /\ means = DefaultMeans(nComponents, Undefined)
  /\ vars = DefaultVars(nComponents, Undefined)
  /\ options = NoOptions
  /\ h \in LlkHistograms
  /\ data = <<>>
  /\ args = Nothing /\ loc = Nothing /\ ret = Nothing
  /\ obs = [histogram |-> NotMeasured, array |-> NotMeasured, memberships |-> NotMeasured]

NextLogLikelihood ==
  \/ LogLikelihoodHistogram
  \/ LogLikelihoodFlattened
  \/ LogLikelihoodMemberships

SpecLogLikelihood == InitLogLikelihood /\ [][NextLogLikelihood]_vars_all

\* C8: for every model and histogram h, logLikelihood(h) equals
\* logLikelihood(h.flatten()).
C8_HistogramAsFlattened ==
  (pc = "measured" /\ obs.histogram.done /\ obs.array.done)
    => obs.histogram.value = obs.array.value

\* C9: for every model and data array, _logLikelihoodMemberships(memberships(data))
\* equals logLikelihood(data).
C9_MembershipsAsData ==
  LET
      \* what the rounding of the model's logarithms may add to a comparison of two
      \* log-likelihoods: 0.05
      LlkTolerance == SCALE \div 20
  IN
  (pc = "measured" /\ obs.array.done /\ obs.memberships.done)
    => Close(obs.memberships.value, obs.array.value, LlkTolerance)

\* ---------------------------------------------------------------------------
\* K-means++ initialization

\* the outcomes of Math.random() considered: 0, 1/4, 1/2, 3/4, and the
\* greatest below 1
RandomDraws == {0, SCALE \div 4, SCALE \div 2, (3 * SCALE) \div 4, SCALE - 1}

\* a mutation: initialization also refuses as many points as components
InitializeThrowsAtEqual(n, K) == n <= K

\* n < this.nComponents
InitializeThrows(n, K) == n < K

\* Math.round(r * (n - 1)), for r in [0, 1)
FirstIndex(r, n) == (2 * r * (n - 1) + SCALE) \div (2 * SCALE)

RECURSIVE MinDistance(_, _, _)
\* meansDistances.reduce(Math.min) over the first m seeds, for the value v
MinDistance(seeds, v, m) ==
  LET
      \* Math.min
      MinNumber(a, b) == IF a = NaN \/ b = NaN THEN NaN ELSE IF a <= b THEN a ELSE b
  IN
  LET dist == Mul(Sub(seeds[m], v), Sub(seeds[m], v))
  IN IF m = 1 THEN dist ELSE MinNumber(MinDistance(seeds, v, m - 1), dist)

\* a || 0
OrZero(a) == IF Truthy(a) THEN a ELSE 0

RECURSIVE Scan(_, _, _, _)
\* the scan for the first index j with p[j] > r, r reduced by the p passed
\* over; the last index n if there is none
Scan(p, r, j, n) ==
  IF Gt(p[j], r) \/ j = n THEN j ELSE Scan(p, Sub(r, p[j]), j + 1, n)

RECURSIVE Seeds(_, _, _)
\* the first m seeds chosen among the data d, rs[i] being the i-th random draw
Seeds(d, rs, m) ==
  IF m = 1 THEN <<d[FirstIndex(rs[1], Len(d)) + 1]>>
  ELSE LET chosen == Seeds(d, rs, m - 1)
           distances == [i \in 1..Len(d) |-> MinDistance(chosen, d[i], m - 1)]
           dsum == SumTo(distances, Len(d), 0)
           p == [j \in 1..Len(d) |-> OrZero(Div(distances[j], dsum))]
       IN Append(chosen, d[Scan(p, rs[m], 1, Len(d))])

RECURSIVE SeedsHistogram(_, _, _)
\* the first m seeds chosen among the bins of hh
SeedsHistogram(hh, rs, m) ==
  LET keys == hh.keys
      n == Len(keys)
  IN IF n = 0 THEN <<>>
     ELSE IF m = 1
     THEN LET p == [i \in 1..n |-> OrZero(Div(Num(hh.counts[keys[i]]), Num(hh.total)))]
          IN <<value(hh, keys[Scan(p, rs[1], 1, n)])>>
     ELSE LET chosen == SeedsHistogram(hh, rs, m - 1)
              d == [i \in 1..n |-> MinDistance(chosen, value(hh, keys[i]), m - 1)]
              distances == [i \in 1..n |-> Mul(d[i], Num(hh.counts[keys[i]]))]
              dsum == SumTo(d, n, 0)
              p == [i \in 1..n |-> OrZero(Div(distances[i], dsum))]
          IN Append(chosen, value(hh, keys[Scan(p, rs[m], 1, n)]))

RECURSIVE Insert(_, _)
\* x put into the ascending sequence s
Insert(s, x) ==
  IF s = <<>> THEN <<x>>
  ELSE IF x < Head(s) THEN <<x>> \o s
  ELSE <<Head(s)>> \o Insert(Tail(s), x)

RECURSIVE SortNumbers(_)
\* means.sort(function (a, b) { return a - b; })
SortNumbers(s) == IF s = <<>> THEN <<>> ELSE Insert(SortNumbers(Tail(s)), Head(s))

\* a mutation: the seeds are returned in the order they were chosen
_initializeUnsorted(g, d, rs) == Seeds(d, rs, g.nComponents)

\* GMM.prototype._initialize, when it does not throw: the sorted seeds
_initialize(g, d, rs) == SortNumbers(Seeds(d, rs, g.nComponents))

\* h.value throws in _initializeHistogram: at the first seed, or at a distance
_initializeHistogramValueThrows(g, hh, rs) ==
  /\ hh.hasBins /\ Len(hh.keys) > 0
  /\ \/ g.nComponents >= 2 /\ \E i \in 1..Len(hh.keys) : ValueThrows(hh, hh.keys[i])
     \/ LET p == [i \in 1..Len(hh.keys) |->
                    OrZero(Div(Num(hh.counts[hh.keys[i]]), Num(hh.total)))]
        IN ValueThrows(hh, hh.keys[Scan(p, rs[1], 1, Len(hh.keys))])

\* GMM.prototype._initializeHistogram, when it does not throw
_initializeHistogram(g, hh, rs) == SortNumbers(SeedsHistogram(hh, rs, g.nComponents))

\* gmm._initialize(data) and gmm._initializeHistogram(h), with the draws rs
Initialize(variant, rs) ==
  /\ pc = "constructed"
  /\ IF variant = "array"
     THEN IF InitializeThrows(Len(data), nComponents)
          THEN pc' = "threw" /\ UNCHANGED <<means, ret>>
          ELSE \E m \in {_initialize(This, data, rs)} :
                 pc' = "initialized" /\ means' = m /\ ret' = Returned(m)
     ELSE IF InitializeThrows(h.total, nComponents) \/ _initializeHistogramValueThrows(This, h, rs)
          THEN pc' = "threw" /\ UNCHANGED <<means, ret>>
          ELSE \E m \in {_initializeHistogram(This, h, rs)} :
                 pc' = "initialized" /\ means' = m /\ ret' = Returned(m)
  /\ obs' = [variant |-> variant, rs |-> rs]
  /\ UNCHANGED <<nComponents, weights, vars, options, data, h, args, loc>>

\* the bounds of the initialization: components, observations, their values
IniMaxComponents == 2
IniMaxLen == 4
IniMaxVal == 1

InitInitialize ==
  LET
      \* the bins [0, 1) and [1, 3) the histogram of the data may be given; the
      \* histogram may also be that of the data and one more observation, 2
      IniBins == <<<<"a", 0, Num(1)>>, <<"b", Num(1), Num(3)>>>>
  IN
  /\ pc = "constructed"
  /\ nComponents \in 1..IniMaxComponents
  /\ weights = DefaultWeights(nComponents, Undefined)
  /\ means = DefaultMeans(nComponents, Undefined)
  /\ vars = DefaultVars(nComponents, Undefined)
  /\ options = NoOptions
  /\ data \in UNION {[1..n -> {Num(x) : x \in 0..IniMaxVal}] : n \in 0..IniMaxLen}
  /\ h \in {fromData(data, FALSE, <<>>), fromData(data, TRUE, IniBins),
            fromData(Append(data, Num(2)), FALSE, <<>>)}
  /\ args = Nothing /\ loc = Nothing /\ ret = Nothing
  /\ obs = [variant |-> "none", rs |-> <<>>]

NextInitialize ==
  \E variant \in {"array", "histogram"}, rs \in [1..nComponents -> RandomDraws] :
    Initialize(variant, rs)

SpecInitialize == InitInitialize /\ [][NextInitialize]_vars_all

\* the number of points of the input of the initialization
Points == IF obs.variant = "array" THEN Len(data) ELSE h.total

\* the number of distinct observation values of the input
DistinctValues ==
  IF obs.variant = "array" THEN Cardinality({data[i] : i \in 1..Len(data)})
  ELSE Cardinality({i \in 1..Len(h.keys) : h.counts[h.keys[i]] > 0})

SeedValues ==
  IF obs.variant = "array" THEN {data[i] : i \in 1..Len(data)}
  ELSE {value(h, h.keys[i]) : i \in 1..Len(h.keys)}

\* C11: when the data holds exactly nComponents distinct values, each possibly
\* repeated, initialize returns exactly those values in ascending order,
\* whatever the random draws are: no seed is chosen twice.
C11_DistinctSeeds ==
  (pc = "initialized" /\ obs.variant = "array" /\ DistinctValues = nComponents)
    => /\ {means[k] : k \in 1..nComponents} = SeedValues
       /\ \A k \in 1..(nComponents - 1) : means[k] < means[k + 1]

C28_SeedByWeightedDistance ==
  (pc = "initialized" /\ obs.variant = "histogram" /\ nComponents = 2) =>
    LET n == Len(h.keys)
        first == SeedsHistogram(h, obs.rs, 1)
        weighted == [i \in 1..n |->
                       Mul(MinDistance(first, value(h, h.keys[i]), 1), Num(h.counts[h.keys[i]]))]
        total == SumTo(weighted, n, 0)
        p == [i \in 1..n |-> OrZero(Div(weighted[i], total))]
        second == value(h, h.keys[Scan(p, obs.rs[2], 1, n)])
    IN ret.value = SortNumbers(Append(first, second))

\* C29: the first seed is drawn uniformly. For an array every index of the
\* data is selected by the same share of the draws r in [0, 1) (counted on the
\* grid of the model's numbers, within one grid point); for a histogram each
\* bin is selected by the share count / total of the draws.
C29_FirstSeedUniform ==
  LET grid == 0..(SCALE - 1)
  IN /\ (pc = "initialized" /\ obs.variant = "array") =>
          LET n == Len(data)
              share(i) == Cardinality({r \in grid : FirstIndex(r, n) = i})
          IN /\ means[1] = data[FirstIndex(obs.rs[1], n) + 1] \/ nComponents > 1
             /\ \A i, j \in 0..(n - 1) : AbsI(share(i) - share(j)) <= 1
     /\ (pc = "initialized" /\ obs.variant = "histogram") =>
          LET n == Len(h.keys)
              p == [i \in 1..n |-> OrZero(Div(Num(h.counts[h.keys[i]]), Num(h.total)))]
              share(i) == Cardinality({r \in grid : Scan(p, r, 1, n) = i})
          IN \A i \in 1..n : AbsI(share(i) - p[i]) <= n

\* ---------------------------------------------------------------------------
\* SpecOptimize: gmm.optimize(data) and gmm.optimize(h), one loop iteration per
\* step; a second model built from the same parameters is then optimized on the
\* histogram of the same data (test 'optimize - histogram')

MAX_ITERATIONS == 200

\* a number argument that is undefined, and one that is given
NoNumber == [given |-> FALSE, a |-> 0]
GivenNumber(a) == [given |-> TRUE, a |-> a]

\* maxIterations === undefined ? MAX_ITERATIONS : maxIterations
DefaultMaxIterations(maxIterations) ==
  IF maxIterations.given THEN maxIterations.a ELSE MAX_ITERATIONS

\* a mutation: the loop runs while i <= maxIterations
LoopContinuesOffByOne(i, maxIterations, logLikelihoodDiff, logLikelihoodTol) ==
  i <= maxIterations /\ Gt(logLikelihoodDiff, logLikelihoodTol)

\* i < maxIterations && logLikelihoodDiff > logLikelihoodTol
LoopContinues(i, maxIterations, logLikelihoodDiff, logLikelihoodTol) ==
  i < maxIterations /\ Gt(logLikelihoodDiff, logLikelihoodTol)

\* the entry of optimize up to the loop, the arguments being those of args and
\* rs the random draws of the initialization that options.initialize asks for
OptimizeCall(rs) ==
  LET
      \* logLikelihoodTol === undefined ? EPSILON : logLikelihoodTol
      DefaultLogLikelihoodTol(logLikelihoodTol) ==
        IF logLikelihoodTol.given THEN logLikelihoodTol.a ELSE EPSILON
  IN
  /\ pc = "constructed"
  /\ LET throws ==
           /\ options.initialize
           /\ IF args.variant = "array"
              THEN InitializeThrows(Len(data), nComponents)
              ELSE \/ InitializeThrows(h.total, nComponents)
                   \/ _initializeHistogramValueThrows(This, h, rs)
     IN IF throws
        THEN pc' = "threw" /\ UNCHANGED <<means, loc>>
        ELSE /\ pc' = "loop"
             /\ means' = IF ~options.initialize THEN means
                         ELSE IF args.variant = "array" THEN _initialize(This, data, rs)
                         ELSE _initializeHistogram(This, h, rs)
             /\ loc' = [i |-> 0,
                        maxIterations |-> DefaultMaxIterations(args.maxIterations),
                        logLikelihoodTol |-> DefaultLogLikelihoodTol(args.logLikelihoodTol),
                        logLikelihoodDiff |-> Infinity,
                        logLikelihood |-> NegInfinity,
                        memberships |-> Undefined]
  /\ UNCHANGED <<nComponents, weights, vars, options, data, h, args, ret, obs>>

\* the state after an iteration that updated the model to g and measured temp
Iterated(g, temp, mem) ==
  LET
      \* Math.abs
      Abs(a) == IF a = NaN THEN NaN ELSE IF a = NegInfinity THEN Infinity ELSE AbsI(a)
  IN
  /\ pc' = "loop"
  /\ weights' = g.weights /\ means' = g.means /\ vars' = g.vars
  /\ loc' = [loc EXCEPT !.i = loc.i + 1,
                        !.logLikelihoodDiff = Abs(Sub(loc.logLikelihood, temp)),
                        !.logLikelihood = temp,
                        !.memberships = mem]
  /\ obs' = [obs EXCEPT !.steps = obs.steps + 1]

\* a mutation: the memberships kept for the next iteration are those of the
\* model of before the update
IterateArrayStale ==
  IF ~loc.memberships.given /\ GaussiansThrow(This)
  THEN /\ pc' = "threw"
       /\ UNCHANGED <<weights, means, vars, loc, obs>>
  ELSE \E g \in {_updateModel(This, data,
                              IF loc.memberships.given THEN loc.memberships.a
                              ELSE memberships(This, data))} :
         IF GaussiansThrow(g)
         THEN /\ pc' = "threw"
              /\ weights' = g.weights /\ means' = g.means /\ vars' = g.vars
              /\ obs' = [obs EXCEPT !.steps = obs.steps + 1]
              /\ UNCHANGED loc
         ELSE \E mem \in {memberships(This, data)} :
                Iterated(g, _logLikelihoodMemberships(g, mem), Given(mem))

\* one iteration of the loop of _optimize
IterateArray ==
  IF ~loc.memberships.given /\ GaussiansThrow(This)
  THEN /\ pc' = "threw"
       /\ UNCHANGED <<weights, means, vars, loc, obs>>
  ELSE \E g \in {_updateModel(This, data,
                              IF loc.memberships.given THEN loc.memberships.a
                              ELSE memberships(This, data))} :
         IF GaussiansThrow(g)
         THEN /\ pc' = "threw"
              /\ weights' = g.weights /\ means' = g.means /\ vars' = g.vars
              /\ obs' = [obs EXCEPT !.steps = obs.steps + 1]
              /\ UNCHANGED loc
         ELSE \E mem \in {memberships(g, data)} :
                Iterated(g, _logLikelihoodMemberships(g, mem), Given(mem))

\* one iteration of the loop of _optimizeHistogram
IterateHistogram ==
  IF GaussiansThrow(This) \/ \E i \in 1..Len(h.keys) : ValueThrows(h, h.keys[i])
  THEN /\ pc' = "threw"
       /\ UNCHANGED <<weights, means, vars, loc, obs>>
  ELSE \E g \in {_updateModelHistogram(This, h, _membershipsHistogram(This, h))} :
         IF GaussiansThrow(g)
         THEN /\ pc' = "threw"
              /\ weights' = g.weights /\ means' = g.means /\ vars' = g.vars
              /\ obs' = [obs EXCEPT !.steps = obs.steps + 1]
              /\ UNCHANGED loc
         ELSE Iterated(g, _logLikelihoodHistogram(g, h), Undefined)

\* the loop body, entered while the loop condition holds
OptimizeIteration ==
  /\ pc = "loop"
  /\ LoopContinues(loc.i, loc.maxIterations, loc.logLikelihoodDiff, loc.logLikelihoodTol)
  /\ IF args.variant = "array" THEN IterateArray ELSE IterateHistogram
  /\ UNCHANGED <<nComponents, options, data, h, args, ret>>

\* return i, when the loop condition fails
OptimizeReturn ==
  /\ pc = "loop"
  /\ ~LoopContinues(loc.i, loc.maxIterations, loc.logLikelihoodDiff, loc.logLikelihoodTol)
  /\ pc' = "returned"
  /\ ret' = Returned(loc.i)
  /\ UNCHANGED <<nComponents, weights, means, vars, options, data, h, args, loc, obs>>

\* the arguments of a call of optimize
Call(variant, maxIterations, logLikelihoodTol) ==
  [variant |-> variant, maxIterations |-> maxIterations, logLikelihoodTol |-> logLikelihoodTol]

\* after gmm.optimize(data) with the default arguments returned: gmm2, a model
\* with the parameters gmm started from, about to run gmm2.optimize(h)
SecondModel ==
  /\ pc = "returned"
  /\ ~obs.first.done
  /\ args = Call("array", NoNumber, NoNumber)
  /\ pc' = "constructed"
  /\ weights' = obs.start.weights /\ means' = obs.start.means /\ vars' = obs.start.vars
  /\ args' = Call("histogram", NoNumber, NoNumber)
  /\ obs' = [obs EXCEPT !.steps = 0,
                        !.first = [done |-> TRUE, model |-> model, ret |-> ret.value]]
  /\ ret' = Nothing
  /\ UNCHANGED <<nComponents, options, data, h, loc>>

\* the bounds of the optimization: components, observations, their values,
\* the maxIterations given
OptMaxComponents == 2
OptMaxLen == 3
OptMaxVal == 2
OptMaxIterations == 1

InitOptimize ==
  LET
      NoModel == [weights |-> <<>>, means |-> <<>>, vars |-> <<>>]
      \* the data: OptMaxLen even numbers up to 2 * OptMaxVal, in ascending order
      OptData ==
        {[i \in 1..OptMaxLen |-> 2 * s[i]] : s \in SortedSeqs(OptMaxLen, 0, OptMaxVal)}
      \* the data of the runs that no tolerance stops
      OptCapData == [i \in 1..OptMaxLen |-> Num(2 * (i - 1))]
      \* the options: none, both priors (as in test 'optimize - histogram'), and a
      \* K-means++ initialization
      OptOptions ==
        {NoOptions,
         [NoOptions EXCEPT !.variancePrior = Num(3), !.variancePriorRelevance = SCALE \div 2,
                           !.separationPrior = Num(3), !.separationPriorRelevance = Num(1)],
         [NoOptions EXCEPT !.initialize = TRUE]}
      \* the starting variances: narrow (observations lie beyond the reach of the
      \* densities) and wide
      OptVars(n) == {[k \in 1..n |-> SCALE \div 4], [k \in 1..n |-> Num(4)]}
      OptCalls ==
        {Call(v, n, NoNumber) :
           v \in {"array", "histogram"},
           n \in {NoNumber} \cup {GivenNumber(m) : m \in 0..OptMaxIterations}}
      \* calls with a tolerance that no difference reaches
      OptCapCalls ==
        {Call(v, NoNumber, GivenNumber(Neg(Num(1)))) : v \in {"array", "histogram"}}
  IN
  /\ pc = "constructed"
  /\ nComponents \in 1..OptMaxComponents
  /\ means = [k \in 1..nComponents |-> Num(2 * (k - 1))]
  /\ vars \in OptVars(nComponents)
  /\ weights = DefaultWeights(nComponents, Undefined)
  /\ options \in OptOptions
  /\ \/ data \in OptData /\ args \in OptCalls
     \/ data = OptCapData /\ args \in OptCapCalls /\ options = NoOptions
  /\ h = fromData(data, FALSE, <<>>)
  /\ loc = Nothing /\ ret = Nothing
  /\ obs = [steps |-> 0, start |-> model,
            first |-> [done |-> FALSE, model |-> NoModel, ret |-> 0]]

NextOptimize ==
  \/ \E rs \in IF options.initialize THEN [1..nComponents -> RandomDraws]
                ELSE {[k \in 1..nComponents |-> 0]} : OptimizeCall(rs)
  \/ OptimizeIteration
  \/ OptimizeReturn
  \/ SecondModel

SpecOptimize == InitOptimize /\ [][NextOptimize]_vars_all

\* the loop of optimize keeps running, nothing else being scheduled: weak
\* fairness of OptimizeReturn and of OptimizeIteration, the latter written out
\* with its enabling condition (the only steps that leave a state in which
\* the loop condition holds are those of OptimizeIteration)
FairOptimize ==
  /\ SpecOptimize
  /\ WF_vars_all(OptimizeReturn)
  /\ \/ []<>~(pc = "loop" /\ LoopContinues(loc.i, loc.maxIterations,
                                            loc.logLikelihoodDiff, loc.logLikelihoodTol))
     \/ []<><<pc = "loop" /\ LoopContinues(loc.i, loc.maxIterations,
                                            loc.logLikelihoodDiff, loc.logLikelihoodTol)>>_vars_all

\* the iteration cap of the call in progress
Cap == DefaultMaxIterations(args.maxIterations)

\* C5: optimize (either variant) terminates, executes at most maxIterations
\* update steps (200 when maxIterations is omitted, none when it is 0) and
\* returns exactly the number of update steps it executed.
C5_OptimizeTerminates ==
  /\ [](pc \in {"loop", "returned", "threw"} => obs.steps <= Cap)
  /\ [](pc = "returned" => ret.value = obs.steps /\ ret.value <= Cap)
  /\ (pc = "loop" ~> pc \in {"returned", "threw"})

\* optimize with maxIterations omitted ran into the cap of 200 and returned it
C5_Witness ==
  /\ pc = "returned"
  /\ ~args.maxIterations.given
  /\ ret.value = MAX_ITERATIONS /\ obs.steps = MAX_ITERATIONS

\* C6: when optimize returns a count below the cap, the difference between the
\* last two log-likelihood values is at most the tolerance; and the loop does
\* not stop below the cap while the difference exceeds the tolerance.
C6_StopsOnlyWithinTolerance ==
  (pc = "returned" /\ ret.value < Cap) =>
     /\ Le(loc.logLikelihoodDiff, loc.logLikelihoodTol)
     /\ ~Gt(loc.logLikelihoodDiff, loc.logLikelihoodTol)

\* C7: from the same model and options (no random initialization), optimize on
\* the data array and optimize on the histogram of the same data end with the
\* same weights, means and vars.
C7_SameModelFromHistogram ==
  LET
      \* what the rounding of the model's numbers may add to the tolerance of 1e-5: 0.05
      EquivTolerance == SCALE \div 20
  IN
  (pc = "returned" /\ obs.first.done /\ ~options.initialize) =>
     \A k \in 1..nComponents :
        /\ Close(weights[k], obs.first.model.weights[k], EquivTolerance)
        /\ Close(means[k], obs.first.model.means[k], EquivTolerance)
        /\ Close(vars[k], obs.first.model.vars[k], EquivTolerance)

\* C27: every iteration of optimize on an array leaves the model that
\* updateModel(data), called with no responsibilities, leaves from the model
\* the iteration started from: the responsibilities handed over from the
\* iteration before are those of the data under the current parameters.
C27_IterationIsUpdateModel ==
  [][(pc = "loop" /\ args.variant = "array" /\ obs'.steps = obs.steps + 1)
       => /\ ~GaussiansThrow(This)
          /\ \E g \in {_updateModel(This, data, memberships(This, data))} :
               weights' = g.weights /\ means' = g.means /\ vars' = g.vars]_vars_all

\* optimize on an array is past its second iteration: the responsibilities it
\* holds for the next one are those of the data under the current parameters,
\* and the model has moved since the call
C27_Witness ==
  /\ pc = "loop" /\ args.variant = "array" /\ nComponents = 2
  /\ loc.i >= 2 /\ obs.steps = loc.i
  /\ loc.memberships.given /\ loc.memberships.a = memberships(This, data)
  /\ model # obs.start

\* C30: with maxIterations at least 2 (or omitted), optimize executes at least
\* two iterations on every input, whatever the first log-likelihood is: the
\* first difference to the baseline of -Infinity always exceeds the tolerance.
C30_AtLeastTwoIterations ==
  (pc = "returned" /\ Cap >= 2) => ret.value >= 2

\* ---------------------------------------------------------------------------
\* SpecSample: gmm.sample(nSamples), one sample per step

\* gaussian(mean, variance).ppf(u)
ppf(mean, variance, u) ==
  LET
      StandardQuantile(q) ==
        IF q = 0 THEN NegInfinity
        ELSE IF q = 159 THEN Neg(Num(1))
        ELSE IF q = 500 THEN 0
        ELSE Num(1)
  IN
  Add(mean, Mul(Sqrt(variance), StandardQuantile(u)))

RECURSIVE ScanWeights(_, _, _, _)
\* while (r > this.weights[n] && n < this.nComponents) { r -= this.weights[n]; n++; }
\* the value of n after the loop; this.weights[nComponents] is undefined and no
\* number is greater than undefined
ScanWeights(w, r, n, K) ==
  IF n < K /\ Gt(r, w[n + 1]) THEN ScanWeights(w, Sub(r, w[n + 1]), n + 1, K) ELSE n

\* gmm.sample(nSamples) is called: the gaussians are built
SampleCall(nSamples) ==
  /\ pc = "constructed"
  /\ args' = [nSamples |-> nSamples]
  /\ IF GaussiansThrow(This)
     THEN pc' = "threw" /\ UNCHANGED loc
     ELSE pc' = "sampling" /\ loc' = [i |-> 0, samples |-> <<>>]
  /\ UNCHANGED <<nComponents, weights, means, vars, options, data, h, ret, obs>>

\* one turn of the loop, with the draws r (for the component) and u (for ppf):
\* gaussians[n] is undefined when n has reached nComponents, and reading its
\* ppf is a TypeError
SampleStep(r, u) ==
  /\ pc = "sampling"
  /\ loc.i < args.nSamples
  /\ \E n \in {ScanWeights(weights, r, 0, nComponents)} :
       /\ obs' = [r |-> r, n |-> n]
       /\ IF n >= nComponents
          THEN pc' = "threw" /\ UNCHANGED loc
          ELSE /\ pc' = "sampling"
               /\ loc' = [i |-> loc.i + 1,
                          samples |-> Append(loc.samples, ppf(means[n + 1], vars[n + 1], u))]
  /\ UNCHANGED <<nComponents, weights, means, vars, options, data, h, args, ret>>

\* return samples
SampleReturn ==
  /\ pc = "sampling"
  /\ loc.i >= args.nSamples
  /\ pc' = "returned"
  /\ ret' = Returned(loc.samples)
  /\ UNCHANGED <<nComponents, weights, means, vars, options, data, h, args, loc, obs>>

\* the bounds of sampling: components, samples asked for
SamMaxComponents == 2
SamMaxSamples == 2

InitSample ==
  LET
      \* the weights given to the constructor: the default, weights that sum to 1,
      \* to less than 1 and to more than 1
      SamWeights(n) ==
        {Undefined,
         Given([k \in 1..n |-> IF k = 1 THEN Num(1) ELSE 0]),
         Given([k \in 1..n |-> SCALE \div 10]),
         Given([k \in 1..n |-> (7 * SCALE) \div 10])}
  IN
  /\ pc = "constructed"
  /\ nComponents \in 1..SamMaxComponents
  /\ \E w \in SamWeights(nComponents) : weights = DefaultWeights(nComponents, w)
  /\ means = DefaultMeans(nComponents, Undefined)
  /\ vars = DefaultVars(nComponents, Undefined)
  /\ options = NoOptions
  /\ data = <<>> /\ h = EmptyHistogram
  /\ args = Nothing /\ loc = Nothing /\ ret = Nothing
  /\ obs = [r |-> 0, n |-> 0]

NextSample ==
  \/ \E nSamples \in 0..SamMaxSamples : SampleCall(nSamples)
  \/ \E r \in RandomDraws, u \in {0, 159, 500, 841} : SampleStep(r, u)
  \/ SampleReturn

SpecSample == InitSample /\ [][NextSample]_vars_all

\* C13: for every draw r and every weights array the constructor accepts, also
\* one whose sum is below r, the scan of the weights ends on a component index
\* in 0..nComponents-1 (the last one when the scan passes all weights), so
\* sample(n) never fails and returns n values.
C13_SampleNeverFails ==
  /\ pc # "threw"
  /\ pc \in {"sampling", "returned"} => obs.n <= nComponents - 1
  /\ pc = "returned" => Len(ret.value) = args.nSamples

\* ---------------------------------------------------------------------------
\* SpecHistogram: a Histogram is built from a counts record or by fromData,
\* then observations are added, and it is flattened and asked for the values
\* of keys

\* the bounds of the histograms: the largest observation, the length of the
\* data, the largest count given, the number of add calls
HisMaxVal == 2
HisMaxLen == 2
HisMaxCount == 1
HisMaxAdds == 1

\* the observations: the halves between 0 and HisMaxVal
HisNumbers == {(n * SCALE) \div 2 : n \in 0..(2 * HisMaxVal)}

\* the bins [0, 1) and [1, 2)
HisBins == <<<<"a", 0, Num(1)>>, <<"b", Num(1), Num(2)>>>>

NoObservation ==
  [op |-> "none", x |-> 0, key |-> "", threw |-> FALSE, before |-> EmptyHistogram]

\* new Histogram({counts: c}) and new Histogram({counts: c, bins: b})
HistogramNew(hh) ==
  /\ pc = "start"
  /\ pc' = "built"
  /\ h' = hh
  /\ loc' = [origin |-> "new", adds |-> 0]
  /\ UNCHANGED <<nComponents, weights, means, vars, options, data, args, ret, obs>>

\* new Histogram() and new Histogram({bins: b}): h = h || {} has no counts, and
\* Histogram._total(h) reads Object.keys(h.counts) of that argument, which
\* raises a TypeError on undefined before any histogram is returned
HistogramNewNoCounts(given, bins) ==
  /\ pc = "start"
  /\ pc' = "threw"
  /\ obs' = [NoObservation EXCEPT !.op = IF given THEN "new {bins}" ELSE "new", !.threw = TRUE]
  /\ loc' = [origin |-> "new", adds |-> 0]
  /\ UNCHANGED <<nComponents, weights, means, vars, options, data, h, args, ret>>

\* Histogram.fromData(data) and Histogram.fromData(data, bins)
HistogramFromData(d, hasBins, bins) ==
  /\ pc = "start"
  /\ pc' = "built"
  /\ data' = d
  /\ h' = fromData(d, hasBins, bins)
  /\ loc' = [origin |-> "fromData", adds |-> 0]
  /\ UNCHANGED <<nComponents, weights, means, vars, options, args, ret, obs>>

\* h.add(x)
HistogramAdd(x) ==
  /\ pc = "built"
  /\ loc.adds < HisMaxAdds
  /\ h' = add(h, x)
  /\ loc' = [loc EXCEPT !.adds = loc.adds + 1]
  /\ obs' = [NoObservation EXCEPT !.op = "add", !.x = x, !.before = h]
  /\ UNCHANGED <<pc, nComponents, weights, means, vars, options, data, args, ret>>

\* h.flatten()
HistogramFlatten ==
  LET
      \* Histogram.prototype.flatten throws when value does, for one of the keys
      FlattenThrows(hh) == \E i \in 1..Len(hh.keys) : ValueThrows(hh, hh.keys[i])
  IN
  /\ pc = "built"
  /\ obs' = [NoObservation EXCEPT !.op = "flatten", !.threw = FlattenThrows(h), !.before = h]
  /\ ret' = IF FlattenThrows(h) THEN Nothing ELSE Returned(flatten(h))
  /\ UNCHANGED <<pc, nComponents, weights, means, vars, options, data, h, args, loc>>

\* h.value(key)
HistogramValue(key) ==
  /\ pc = "built"
  /\ obs' = [NoObservation EXCEPT !.op = "value", !.key = key,
                                  !.threw = ValueThrows(h, key), !.before = h]
  /\ ret' = IF ValueThrows(h, key) THEN Nothing ELSE Returned(value(h, key))
  /\ UNCHANGED <<pc, nComponents, weights, means, vars, options, data, h, args, loc>>

InitHistogram ==
  /\ pc = "start"
  /\ nComponents = 0 /\ weights = <<>> /\ means = <<>> /\ vars = <<>>
  /\ options = NoOptions
  /\ data = <<>> /\ h = EmptyHistogram
  /\ args = Nothing /\ loc = Nothing /\ ret = Nothing
  /\ obs = NoObservation

NextHistogram ==
  LET
      \* new Histogram({counts: c, bins: b}), the keys of c in Object.keys order
      NewHistogramBins(keys, counts, bins) ==
        LET hh == [hasBins |-> TRUE, bins |-> bins, keys |-> keys, counts |-> counts, total |-> 0]
        IN [hh EXCEPT !.total = _total(hh)]
  IN
  \/ \E ks \in KeySeqs(HisMaxVal + 1) :
       \E c \in [{ks[i] : i \in 1..Len(ks)} -> 0..HisMaxCount] :
         HistogramNew(NewHistogram(ks, c))
  \/ \E ks \in {<<>>, <<"a">>, <<"b">>, <<"a", "b">>, <<"b", "a">>, <<"e">>} :
       \E c \in [{ks[i] : i \in 1..Len(ks)} -> 0..HisMaxCount] :
         HistogramNew(NewHistogramBins(ks, c, HisBins))
  \/ HistogramNewNoCounts(FALSE, <<>>)
  \/ HistogramNewNoCounts(TRUE, HisBins)
  \/ \E n \in 0..HisMaxLen : \E d \in [1..n -> HisNumbers] :
       \/ HistogramFromData(d, FALSE, <<>>)
       \/ HistogramFromData(d, TRUE, HisBins)
  \/ \E x \in HisNumbers : HistogramAdd(x)
  \/ HistogramFlatten
  \/ \E key \in {"a", "b", "e", "0", "2"} : HistogramValue(key)

SpecHistogram == InitHistogram /\ [][NextHistogram]_vars_all

\* C14: for every Histogram, after its construction from a counts record or by
\* fromData and after any sequence of add calls, total is the sum of all the
\* values in counts.
C14_TotalIsSumOfCounts ==
  LET
      \* the sum of all values in counts
      CountsSum(hh) == SumTo([i \in 1..Len(hh.keys) |-> hh.counts[hh.keys[i]]], Len(hh.keys), 0)
  IN
  pc = "built" => (h.total = CountsSum(h) /\ Len(h.keys) = Cardinality(DOMAIN h.counts))

\* a histogram with bins, built from a counts record, after an add call that
\* was counted for a key that had the largest count given
C14_Witness ==
  /\ pc = "built" /\ h.hasBins
  /\ loc.origin = "new" /\ loc.adds = 1
  /\ obs.op = "add" /\ obs.before.total >= 2
  /\ h.total = obs.before.total + 1
  /\ \E key \in DOMAIN h.counts : h.counts[key] = HisMaxCount + 1

\* x lies in the half-open interval [lo, hi) of one of the bins of hh
InSomeBin(hh, x) == \E i \in 1..Len(hh.bins) : hh.bins[i][2] <= x /\ x < hh.bins[i][3]

\* Math.round(x), for x >= 0
Round(x) == Num((x + SCALE \div 2) \div SCALE)

\* C15: add(x) increases the count of exactly one key, the key x classifies to,
\* by 1 and total by 1, and leaves every other count unchanged; when bins are
\* defined and x lies in no bin's half-open interval [lo, hi), add leaves counts
\* and total unchanged and raises no error.
C15_AddCountsOneKey ==
  obs.op = "add" =>
    LET b == obs.before
        x == obs.x
        c == _classify(x, b)
        old(k) == IF k \in DOMAIN b.counts THEN b.counts[k] ELSE 0
    IN IF b.hasBins /\ ~InSomeBin(b, x)
       THEN h = b
       ELSE /\ IF b.hasBins
               THEN HasBin(b, c) /\ BinOf(b, c)[2] <= x /\ x < BinOf(b, c)[3]
               ELSE Number(c) = Round(x)
            /\ DOMAIN h.counts = DOMAIN b.counts \cup {c}
            /\ h.counts[c] = old(c) + 1
            /\ \A k \in DOMAIN b.counts \ {c} : h.counts[k] = b.counts[k]
            /\ h.total = b.total + 1
            /\ h.bins = b.bins /\ h.hasBins = b.hasBins

\* an observation equal to the upper bound of the last bin was added to a
\* histogram with bins that held observations, and nothing changed
C15_Witness ==
  /\ obs.op = "add"
  /\ obs.before.hasBins /\ obs.before.total >= 1
  /\ obs.x = HisBins[Len(HisBins)][3]
  /\ ~InSomeBin(obs.before, obs.x)
  /\ h = obs.before

\* C16: Histogram.fromData(values) without bins followed by flatten() gives a
\* list that is, as a multiset, the values each rounded to the nearest integer;
\* its length is values.length.
C16_FlattenOfFromData ==
  LET
      \* the number of places of the sequence s that hold v
      Occurrences(s, v) == Cardinality({i \in 1..Len(s) : s[i] = v})
  IN
  (obs.op = "flatten" /\ loc.origin = "fromData" /\ loc.adds = 0 /\ ~h.hasBins) =>
    /\ ~obs.threw
    /\ Len(ret.value) = Len(data)
    /\ \A n \in 0..(HisMaxVal + 1) :
         Occurrences(ret.value, Num(n)) = Occurrences([i \in 1..Len(data) |-> Round(data[i])], Num(n))
    /\ \A i \in 1..Len(ret.value) : \E n \in 0..(HisMaxVal + 1) : ret.value[i] = Num(n)

\* two observations, the larger first and not a whole number, came back
\* rounded and in the order of the keys
C16_Witness ==
  /\ obs.op = "flatten" /\ loc.origin = "fromData" /\ loc.adds = 0 /\ ~h.hasBins
  /\ Len(data) = 2 /\ data[1] > data[2]
  /\ Round(data[1]) # data[1]
  /\ ret.value = <<Round(data[2]), Round(data[1])>>
  /\ ret.value[1] < ret.value[2]

\* C20: with bins defined, value(key) is the midpoint (lo + hi) / 2 of the bin
\* of the key, and NaN, without an error, for a key that has no bin; without
\* bins it is the number the key spells.
C20_ValueOfKey ==
  obs.op = "value" =>
    /\ ~obs.threw
    /\ IF ~h.hasBins THEN ret.value = Number(obs.key)
       ELSE IF HasBin(h, obs.key)
       THEN 2 * ret.value = BinOf(h, obs.key)[2] + BinOf(h, obs.key)[3]
       ELSE ret.value = NaN

\* C21: new Histogram() with no argument, and new Histogram({bins: B}) with no
\* counts, succeed and yield a histogram with empty counts and total 0.
C21_FieldsOptional ==
  obs.op \in {"new", "new {bins}"}
    => ~obs.threw /\ pc = "built" /\ h.keys = <<>> /\ h.total = 0

\* ---------------------------------------------------------------------------
\* SpecBarycenter: GMM._barycenter(values, weights), and the same call with
\* every weight multiplied by a constant

\* the bounds of the barycenter: the length of the arrays, the largest value
BarMaxLen == 3
BarMaxVal == 2

InitBarycenter ==
  LET
      \* the weights considered (0, 0.01, 0.3, 0.4) and the constants c: 1/2 and 3,
      \* for which c * w is exact, and 1.002, for which it is rounded
      BarWeights == {0, SCALE \div 100, (3 * SCALE) \div 10, (4 * SCALE) \div 10}
  IN
  /\ pc = "start"
  /\ nComponents = 0 /\ weights = <<>> /\ means = <<>> /\ vars = <<>>
  /\ options = NoOptions
  /\ h = EmptyHistogram
  /\ \E n \in 1..BarMaxLen :
       /\ data \in [1..n -> {Num(v) : v \in 0..BarMaxVal}]
       /\ \E w \in [1..n -> BarWeights] : args = [weights |-> w]
  /\ loc = Nothing /\ ret = Nothing
  /\ obs = [c |-> 0, scaled |-> NaN]

\* barycenter(values, weights), then barycenter(values, c * weights)
Barycenter(c) ==
  /\ pc = "start"
  /\ pc' = "computed"
  /\ ret' = Returned(barycenter(data, args.weights))
  /\ obs' = [c |-> c,
             scaled |-> barycenter(data, [i \in 1..Len(data) |-> Mul(c, args.weights[i])])]
  /\ UNCHANGED <<nComponents, weights, means, vars, options, data, h, args, loc>>

NextBarycenter == \E c \in {SCALE \div 2, Num(3), SCALE + 2} : Barycenter(c)

SpecBarycenter == InitBarycenter /\ [][NextBarycenter]_vars_all

RECURSIVE ExactSum(_, _)
\* f[1] + ... + f[n], without rounding
ExactSum(f, n) == IF n = 0 THEN 0 ELSE ExactSum(f, n - 1) + f[n]

\* the values that have a positive weight
Weighing == {data[i] : i \in {j \in 1..Len(data) : args.weights[j] > 0}}

\* C17 (as amended): barycenter(values, weights) is the sum of values[i] *
\* weights[i] divided by the sum of weights[i], as rounded numbers compute it;
\* so barycenter(values, c * weights) is the same for every c > 0 up to the
\* rounding of the operations, and with non-negative weights not all zero the
\* result lies, up to that rounding, between the smallest and the largest
\* value that has a positive weight.
C17_BarycenterNormalises ==
  LET
      \* the tolerance of the comparison of two barycenters: two units of the last
      \* place of the numbers
      BarTolerance == 2
  IN
  pc = "computed" =>
    LET n == Len(data)
        T == ExactSum(args.weights, n)
        S == ExactSum([i \in 1..n |-> data[i] * args.weights[i]], n)
    IN IF T = 0 THEN ret.value = NaN /\ obs.scaled = NaN
       ELSE /\ IsFinite(ret.value)
            /\ 2 * AbsI(ret.value * T - S) <= T
            /\ Close(obs.scaled, ret.value, BarTolerance)
            /\ \E lo \in Weighing : lo - BarTolerance <= ret.value
            /\ \E hi \in Weighing : ret.value <= hi + BarTolerance

\* C17 as stated: barycenter(values, c * weights) equals barycenter(values,
\* weights) for every c > 0, and the result lies between the smallest and the
\* largest value that has a positive weight.
C17_AsStated ==
  (pc = "computed" /\ \E i \in 1..Len(data) : args.weights[i] > 0) =>
    /\ obs.scaled = ret.value
    /\ \E lo \in Weighing : lo <= ret.value
    /\ \E hi \in Weighing : ret.value <= hi

\* three values with positive weights that do not sum to 1: the barycenter
\* lies strictly between the smallest and the largest, and the barycenter
\* with the weights multiplied by 1.002 is another number
C17_Witness ==
  /\ pc = "computed"
  /\ Len(data) = 3 /\ data[1] < data[3]
  /\ \A i \in 1..3 : args.weights[i] > 0
  /\ ExactSum(args.weights, 3) # SCALE
  /\ obs.c = SCALE + 2
  /\ data[1] < ret.value /\ ret.value < data[3]
  /\ obs.scaled # ret.value

\* ---------------------------------------------------------------------------
\* SpecEntry: gmm.logLikelihood(x) and gmm.optimize(x, maxIterations), x being
\* an array, a Histogram, or a value that is neither (undefined, a number, a
\* plain object with the fields of a Histogram)

\* a mutation: an object with the fields of a Histogram is taken for one
SupportedByFields(variant) == variant \in {"array", "histogram", "object"}

\* Array.isArray(data) || Histogram.prototype.isPrototypeOf(data)
Supported(variant) == variant \in {"array", "histogram"}

\* gmm.optimize(x, maxIterations, logLikelihoodTol) up to the loop
OptimizeEntry(rs) ==
  /\ pc = "constructed"
  /\ IF Supported(args.variant)
     THEN OptimizeCall(rs)
     ELSE /\ pc' = "threw"
          /\ UNCHANGED <<nComponents, weights, means, vars, options, data, h, args, loc, ret, obs>>

\* gmm.logLikelihood(x)
LogLikelihoodEntry ==
  /\ pc = "constructed"
  /\ IF ~Supported(args.variant) \/ GaussiansThrow(This)
        \/ (args.variant # "array" /\ \E i \in 1..Len(h.keys) : ValueThrows(h, h.keys[i]))
     THEN pc' = "threw" /\ UNCHANGED ret
     ELSE /\ pc' = "measured"
          /\ ret' = Returned(IF args.variant = "array" THEN _logLikelihood(This, data)
                             ELSE _logLikelihoodHistogram(This, h))
  /\ UNCHANGED <<nComponents, weights, means, vars, options, data, h, args, loc, obs>>

\* the bounds of the calls: components, observations, their values, the
\* maxIterations given
EntMaxComponents == 2
EntMaxLen == 2
EntMaxVal == 2
EntMaxIterations == 1

InitEntry ==
  LET
      \* what the caller passes as data
      EntVariants == {"array", "histogram", "object", "number", "undefined"}
  IN
  /\ pc = "constructed"
  /\ nComponents \in 1..EntMaxComponents
  /\ means = [k \in 1..nComponents |-> Num(2 * (k - 1))]
  /\ vars \in {[k \in 1..nComponents |-> Num(1)], [k \in 1..nComponents |-> Num(4)]}
  /\ weights = DefaultWeights(nComponents, Undefined)
  /\ options \in {NoOptions, [NoOptions EXCEPT !.initialize = TRUE]}
  /\ data \in UNION {SortedSeqs(n, 0, EntMaxVal) : n \in 1..EntMaxLen}
  /\ h = fromData(data, FALSE, <<>>)
  /\ args \in {Call(v, GivenNumber(m), NoNumber) : v \in EntVariants, m \in 0..EntMaxIterations}
  /\ loc = Nothing /\ ret = Nothing
  /\ obs = [steps |-> 0, start |-> model]

NextEntry ==
  \/ \E rs \in IF options.initialize THEN [1..nComponents -> RandomDraws]
                ELSE {[k \in 1..nComponents |-> 0]} : OptimizeEntry(rs)
  \/ LogLikelihoodEntry
  \/ OptimizeIteration
  \/ OptimizeReturn

SpecEntry == InitEntry /\ [][NextEntry]_vars_all

\* C18: logLikelihood and optimize called with data that is neither an array
\* nor a Histogram instance raise an error, and the model's weights, means and
\* vars are then unchanged: no initializer and no update step has run.
C18_UnsupportedInputThrows ==
  args.variant \notin {"array", "histogram"} =>
    /\ pc \in {"constructed", "threw"}
    /\ model = obs.start
    /\ obs.steps = 0 /\ loc = Nothing /\ ret = Nothing

\* a model with options.initialize was called with a plain object where the
\* data has more points than components, and threw
C18_Witness ==
  /\ pc = "threw"
  /\ args.variant = "object"
  /\ options.initialize /\ Len(data) >= nComponents /\ nComponents = 2
  /\ means = obs.start.means

\* ---------------------------------------------------------------------------
\* SpecUpdateErrors: one update step, the memberships computed by the step or
\* given by the caller, on inputs on which the step may raise an error

\* _updateModel raises an error: in this.memberships(data), when a gaussian
\* refuses its variance; or at memberships[i][k] in the loop of the means, when
\* the memberships given have fewer rows than the data
_updateModelThrows(g, d, mem) ==
  IF mem.given THEN g.nComponents >= 1 /\ Len(mem.a) < Len(d) ELSE GaussiansThrow(g)

\* _updateModelHistogram raises an error: in this._membershipsHistogram(h), when
\* a gaussian refuses its variance or h.value throws; at memberships[b][k] in
\* the sum of the weights, when the memberships given lack a key of counts; or
\* at h.value(key) in the loop of the means
_updateModelHistogramThrows(g, hh, mem) ==
  IF mem.given
  THEN /\ g.nComponents >= 1
       /\ \E i \in 1..Len(hh.keys) : hh.keys[i] \notin DOMAIN mem.a \/ ValueThrows(hh, hh.keys[i])
  ELSE GaussiansThrow(g) \/ \E i \in 1..Len(hh.keys) : ValueThrows(hh, hh.keys[i])

\* gmm._updateModel(data, memberships) and gmm._updateModelHistogram(h, memberships)
UpdateStep ==
  LET
      \* the model _updateModel leaves when it raises the error: untouched when the
      \* memberships were being computed; otherwise this.weights is already replaced
      \* and this.means[0] holds the sum over the rows that exist
      _updateModelPartial(g, d, mem) ==
        IF ~mem.given THEN g
        ELSE LET rows == Len(mem.a)
                 componentWeights ==
                   [k \in 1..g.nComponents |-> SumTo([i \in 1..rows |-> mem.a[i][k]], rows, 0)]
             IN [g EXCEPT !.weights = [k \in 1..g.nComponents |->
                                         Div(componentWeights[k], Num(Len(d)))],
                          !.means[1] = SumTo([i \in 1..rows |-> Mul(mem.a[i][1], d[i])], rows, 0)]
      \* the model _updateModelHistogram leaves when it raises the error: untouched
      \* unless the error is that of h.value in the loop of the means, after
      \* this.weights was replaced
      _updateModelHistogramPartial(g, hh, mem) ==
        LET
            \* the first key of hh, in the order of Object.keys, for which value throws
            FirstThrowingKey(hist) ==
              CHOOSE i \in 1..Len(hist.keys) :
                /\ ValueThrows(hist, hist.keys[i])
                /\ \A j \in 1..(i - 1) : ~ValueThrows(hist, hist.keys[j])
        IN
        IF ~mem.given \/ \E i \in 1..Len(hh.keys) : hh.keys[i] \notin DOMAIN mem.a
        THEN g
        ELSE LET keys == hh.keys
                 c(i) == Num(hh.counts[keys[i]])
                 before == FirstThrowingKey(hh) - 1
                 componentWeights ==
                   [k \in 1..g.nComponents |->
                      SumTo([i \in 1..Len(keys) |-> Mul(mem.a[keys[i]][k], c(i))], Len(keys), 0)]
             IN [g EXCEPT !.weights = [k \in 1..g.nComponents |->
                                         Div(componentWeights[k], Num(hh.total))],
                          !.means[1] = SumTo([i \in 1..before |->
                                                Mul(Mul(mem.a[keys[i]][1], value(hh, keys[i])), c(i))],
                                             before, 0)]
  IN
  /\ pc = "constructed"
  /\ \E g \in {IF args.variant = "array"
               THEN IF _updateModelThrows(This, data, args.memberships)
                    THEN _updateModelPartial(This, data, args.memberships)
                    ELSE _updateModel(This, data,
                                      IF args.memberships.given THEN args.memberships.a
                                      ELSE memberships(This, data))
               ELSE IF _updateModelHistogramThrows(This, h, args.memberships)
                    THEN _updateModelHistogramPartial(This, h, args.memberships)
                    ELSE _updateModelHistogram(This, h,
                                               IF args.memberships.given THEN args.memberships.a
                                               ELSE _membershipsHistogram(This, h))} :
       weights' = g.weights /\ means' = g.means /\ vars' = g.vars
  /\ pc' = IF \/ args.variant = "array" /\ _updateModelThrows(This, data, args.memberships)
              \/ args.variant # "array" /\ _updateModelHistogramThrows(This, h, args.memberships)
           THEN "threw" ELSE "updated"
  /\ UNCHANGED <<nComponents, options, data, h, args, loc, ret, obs>>

\* the bounds of the step: components, observations, their values
ErrMaxComponents == 2
ErrMaxLen == 3
ErrMaxVal == 2

InitUpdateErrors ==
  LET
      \* a histogram whose counts hold one more key, "e", that has no bin
      WithStrayKey(hh) ==
        [hh EXCEPT !.keys = Append(hh.keys, "e"),
                   !.counts = [k \in DOMAIN hh.counts \cup {"e"} |->
                                 IF k = "e" THEN 1 ELSE hh.counts[k]],
                   !.total = hh.total + 1]
      \* the memberships a caller gives: one row [1/K, ..., 1/K] per observation, or
      \* per key
      ErrRow(K) == [k \in 1..K |-> Div(Num(1), Num(K))]
  IN
  /\ pc = "constructed"
  /\ nComponents \in 1..ErrMaxComponents
  /\ means = [k \in 1..nComponents |-> Num(k)]
  /\ vars \in {[k \in 1..nComponents |-> Num(1)], [k \in 1..nComponents |-> 0]}
  /\ weights = [k \in 1..nComponents |-> SCALE \div 5]
  /\ options = NoOptions
  /\ data \in UNION {SortedSeqs(n, 0, ErrMaxVal) : n \in 1..ErrMaxLen}
  /\ h \in {fromData(data, FALSE, <<>>), fromData(data, TRUE, HisBins),
            WithStrayKey(fromData(data, TRUE, HisBins))}
  /\ \/ args \in {[variant |-> v, memberships |-> Undefined] : v \in {"array", "histogram"}}
     \/ \E rows \in 0..Len(data) :
          args = [variant |-> "array", memberships |-> Given([i \in 1..rows |-> ErrRow(nComponents)])]
     \/ \E n \in 0..Len(h.keys) :
          args = [variant |-> "histogram",
                  memberships |-> Given([key \in {h.keys[i] : i \in 1..n} |-> ErrRow(nComponents)])]
  /\ loc = Nothing /\ ret = Nothing
  /\ obs = [start |-> model]

NextUpdateErrors == UpdateStep

SpecUpdateErrors == InitUpdateErrors /\ [][NextUpdateErrors]_vars_all

\* C19: when an update step (_updateModel or _updateModelHistogram, the
\* memberships given or not) raises an error, weights, means and vars all hold
\* the values they had before the call.
C19_NoPartialUpdate == pc = "threw" => model = obs.start

\* ---------------------------------------------------------------------------
\* SpecStep: update steps on small inputs, with and without priors, on a
\* model whose components are four standard deviations apart; the histogram is
\* that of the data, or that of the data with one more key whose count is 0

\* the bounds of the steps: components, observations, their values, steps
StpMaxComponents == 2
StpMaxLen == 2
StpMaxVal == 3
StpMaxSteps == 2

InitStep ==
  LET
      \* new Histogram({counts: c}) with the counts of hh and the key "9" counted 0
      WithEmptyKey(hh) ==
        NewHistogram(Append(hh.keys, "9"),
                     [key \in DOMAIN hh.counts \cup {"9"} |->
                        IF key = "9" THEN 0 ELSE hh.counts[key]])
  IN
  /\ pc = "constructed"
  /\ nComponents \in 1..StpMaxComponents
  /\ means = [k \in 1..nComponents |-> Num(4 * (k - 1))]
  /\ vars = DefaultVars(nComponents, Undefined)
  /\ weights = DefaultWeights(nComponents, Undefined)
  /\ options \in
       {NoOptions,
        [NoOptions EXCEPT !.variancePrior = Num(3), !.variancePriorRelevance = SCALE \div 2],
        [NoOptions EXCEPT !.separationPrior = Num(3), !.separationPriorRelevance = Num(1)]}
  /\ data \in UNION {SortedSeqs(n, 0, StpMaxVal) : n \in 1..StpMaxLen}
  /\ h \in {fromData(data, FALSE, <<>>), WithEmptyKey(fromData(data, FALSE, <<>>))}
  /\ args = Nothing /\ loc = Nothing /\ ret = Nothing
  /\ obs = [steps |-> 0, variant |-> "none", start |-> model, degenerate |-> FALSE,
            before |-> NaN, after |-> NaN]

NextStep ==
  \/ UpdateModel(StpMaxSteps)
  \/ UpdateModelHistogram(StpMaxSteps)

SpecStep == InitStep /\ [][NextStep]_vars_all

\* the statistics of the last step, from the model it started from (obs.start)
\* and its input: the sums of the responsibilities (times the counts, for a
\* histogram), the weights, the raw means, the raw variances around the raw
\* means (varsRaw) and around the means the step left (vars)
RawStep ==
  LET g0 == [This EXCEPT !.weights = obs.start.weights, !.means = obs.start.means,
                         !.vars = obs.start.vars]
      hist == obs.variant = "histogram"
      N == IF hist THEN Len(h.keys) ELSE Len(data)
      n == IF hist THEN h.total ELSE Len(data)
      x(i) == IF hist THEN value(h, h.keys[i]) ELSE data[i]
      c(i) == IF hist THEN Num(h.counts[h.keys[i]]) ELSE Num(1)
      m == [i \in 1..N |-> membership(g0, x(i))]
      cw == [k \in 1..nComponents |-> SumTo([i \in 1..N |-> Mul(m[i][k], c(i))], N, 0)]
      mu == [k \in 1..nComponents |->
               Div(SumTo([i \in 1..N |-> Mul(Mul(m[i][k], x(i)), c(i))], N, 0), cw[k])]
      around(center) ==
        [k \in 1..nComponents |->
           Div(SumTo([i \in 1..N |->
                        Mul(Mul(Mul(m[i][k], Sub(x(i), center[k])), Sub(x(i), center[k])), c(i))],
                     N, EPSILON),
               cw[k])]
  IN [componentWeights |-> cw,
      weights |-> [k \in 1..nComponents |-> Div(cw[k], Num(n))],
      means |-> mu,
      varsRaw |-> around(mu),
      vars |-> around(means)]

\* C23: within one update step with a separation prior, the weights come first,
\* then the raw means, then the blend of all means with the prior (from the new
\* weights and the barycenters of the raw means and of the prior means
\* k * separationPrior), then the variances, each computed around the blended
\* mean.
C23_VarianceAroundBlendedMean ==
  (pc = "updated" /\ HasSeparationPrior(This)) =>
    LET r == RawStep
        priorMeans == [k \in 1..nComponents |-> Mul(Num(k - 1), options.separationPrior)]
        priorCenter == barycenter(priorMeans, r.weights)
        center == barycenter(r.means, r.weights)
        alpha(k) == Div(r.weights[k], Add(r.weights[k], options.separationPriorRelevance))
    IN /\ weights = r.weights
       /\ means = [k \in 1..nComponents |->
                     Add(Add(center, Mul(alpha(k), Sub(r.means[k], center))),
                         Mul(Sub(Num(1), alpha(k)), Sub(priorMeans[k], priorCenter)))]
       /\ vars = r.vars

\* a step with a separation prior moved a mean away from the raw mean, and the
\* variance left differs from the one around the raw mean
C23_Witness ==
  /\ pc = "updated" /\ HasSeparationPrior(This) /\ nComponents = 2
  /\ \A k \in 1..2 : IsFinite(means[k]) /\ IsFinite(vars[k])
  /\ \E k \in 1..2 : means[k] # RawStep.means[k] /\ vars[k] # RawStep.varsRaw[k]

\* C24: with variancePrior P and variancePriorRelevance R positive, every
\* update step leaves each variance between the raw variance and P (up to the
\* rounding of the blend), no farther from P than the raw variance is.
C24_VarianceTowardsPrior ==
  (pc = "updated" /\ HasVariancePrior(This)) =>
    \A k \in 1..nComponents :
      LET raw == RawStep.vars[k]
          P == options.variancePrior
          lo == IF Le(raw, P) THEN raw ELSE P
          hi == IF Le(raw, P) THEN P ELSE raw
      IN /\ Le(Sub(lo, 2), vars[k]) /\ Le(vars[k], Add(hi, 2))
         /\ IsFinite(raw) /\ IsFinite(vars[k])
         /\ AbsI(vars[k] - P) <= AbsI(raw - P) + 2

C26_HistogramStepAsFlattened ==
  (pc = "updated" /\ obs.variant = "histogram") =>
    LET g0 == [This EXCEPT !.weights = obs.start.weights, !.means = obs.start.means,
                           !.vars = obs.start.vars]
        g == _updateModel(g0, flatten(h), memberships(g0, flatten(h)))
        t == SCALE \div 100
    IN \A k \in 1..nComponents :
         /\ Close(weights[k], g.weights[k], t)
         /\ Close(means[k], g.means[k], t)
         /\ Close(vars[k], g.vars[k], t)

\* ---------------------------------------------------------------------------
\* SpecSnapshot: the arrays of a GMM as objects with an identity. loc.heap
\* holds the arrays, loc.this the addresses of this.weights, this.means and
\* this.vars, loc.record the addresses the record returned by model() holds;
\* the arrays a caller passed to the constructor (or to fromModel, in a
\* record) are at the addresses 1, 2, 3.

\* the bounds of the snapshots: components, observations, their values, calls
SnpMaxComponents == 2
SnpMaxLen == 3
SnpMaxVal == 2
SnpMaxCalls == 2

\* record = gmm.model(): the record holds this.weights, this.means and this.vars
\* themselves, not copies
SnapshotModel ==
  /\ pc = "constructed"
  /\ ~obs.taken.done
  /\ loc' = [loc EXCEPT !.record = loc.this]
  /\ obs' = [obs EXCEPT !.taken = [done |-> TRUE, value |-> model]]
  /\ UNCHANGED <<pc, nComponents, weights, means, vars, options, data, h, args, ret>>

\* gmm._updateModel(data), as updateModel and every iteration of optimize call
\* it: this.weights is assigned a new array, this.means[k] and this.vars[k] are
\* written in the arrays this.means and this.vars
SnapshotUpdate ==
  /\ pc = "constructed"
  /\ loc.calls < SnpMaxCalls
  /\ ~GaussiansThrow(This)
  /\ \E g \in {_updateModel(This, data, memberships(This, data))} :
       /\ weights' = g.weights /\ means' = g.means /\ vars' = g.vars
       /\ loc' = [loc EXCEPT !.heap = [a \in DOMAIN loc.heap \cup {loc.free} |->
                                          IF a = loc.free THEN g.weights
                                          ELSE IF a = loc.this.means THEN g.means
                                          ELSE IF a = loc.this.vars THEN g.vars
                                          ELSE loc.heap[a]],
                             !.this.weights = loc.free,
                             !.free = loc.free + 1,
                             !.calls = loc.calls + 1]
  /\ UNCHANGED <<pc, nComponents, options, data, h, args, ret, obs>>

\* gmm._initialize(data), as optimize calls it with options.initialize:
\* this.means is assigned the new array of the seeds
SnapshotInitialize(rs) ==
  /\ pc = "constructed"
  /\ loc.calls < SnpMaxCalls
  /\ ~InitializeThrows(Len(data), nComponents)
  /\ \E seeds \in {_initialize(This, data, rs)} :
       /\ means' = seeds
       /\ loc' = [loc EXCEPT !.heap = [a \in DOMAIN loc.heap \cup {loc.free} |->
                                          IF a = loc.free THEN seeds ELSE loc.heap[a]],
                             !.this.means = loc.free,
                             !.free = loc.free + 1,
                             !.calls = loc.calls + 1]
  /\ UNCHANGED <<pc, nComponents, weights, vars, options, data, h, args, ret, obs>>

\* new GMM(K, w, m, v), also as GMM.fromModel({nComponents: K, weights: w,
\* means: m, vars: v}) builds it: the fields are the caller's arrays
InitSnapshot ==
  /\ pc = "constructed"
  /\ nComponents \in 1..SnpMaxComponents
  /\ weights = DefaultWeights(nComponents, Undefined)
  /\ means \in {DefaultMeans(nComponents, Undefined), [k \in 1..nComponents |-> Num(2 * k)]}
  /\ vars = DefaultVars(nComponents, Undefined)
  /\ options = NoOptions
  /\ data \in UNION {SortedSeqs(n, 0, SnpMaxVal) : n \in 1..SnpMaxLen}
  /\ h = EmptyHistogram
  /\ args = [weights |-> Given(weights), means |-> Given(means), vars |-> Given(vars)]
  /\ loc = [heap |-> <<weights, means, vars>>,
            this |-> [weights |-> 1, means |-> 2, vars |-> 3],
            record |-> [weights |-> 0, means |-> 0, vars |-> 0],
            free |-> 4, calls |-> 0]
  /\ ret = Nothing
  /\ obs = [taken |-> [done |-> FALSE, value |-> model]]

NextSnapshot ==
  \/ SnapshotModel
  \/ SnapshotUpdate
  \/ \E rs \in [1..nComponents -> RandomDraws] : SnapshotInitialize(rs)

SpecSnapshot == InitSnapshot /\ [][NextSnapshot]_vars_all

\* C22: the weights, means and vars of the record returned by model() are not
\* changed by a later updateModel, optimize or initialize call, and the arrays
\* a caller gave to the constructor or to fromModel are not modified either.
C22_SnapshotUnchanged ==
  LET Deref(r) == [weights |-> loc.heap[r.weights], means |-> loc.heap[r.means],
                   vars |-> loc.heap[r.vars]]
  IN /\ obs.taken.done => Deref(loc.record) = obs.taken.value
     /\ Deref([weights |-> 1, means |-> 2, vars |-> 3])
          = [weights |-> args.weights.a, means |-> args.means.a, vars |-> args.vars.a]

====
